---------------------------- MODULE Spec2Model ----------------------------
(***************************************************************************)
(* go-arctest: the in-memory architecture model and its rule engines.      *)
(*                                                                         *)
(* Text (package paths, import paths, type and method names, regular       *)
(* expression sources) is modelled as a sequence of one-character strings, *)
(* so that the code's string surgery (TrimPrefix, TrimSuffix, HasSuffix,   *)
(* Sprintf, Join) and its regular-expression matching are computed, not    *)
(* assumed.  A violation message is modelled by the tuple of arguments the *)
(* code formats into it.                                                   *)
(***************************************************************************)
EXTENDS Integers, Sequences, FiniteSets, TLC

VARIABLES
  importRoot,       \* how the analysed project's own packages are imported: <<>> (bare) or "module/"
  Packages,         \* Architecture.Packages: package path -> Package
  Layers,           \* LayeredArchitecture.Layers: the Layer objects, in declared order
  laArch,           \* LayeredArchitecture.arch is bound
  rules,            \* LayeredArchitecture.rules
  dependencyRules,  \* the []*DependencyRule the caller holds and hands to CheckDependencies
  interfaceRules,   \* the []*InterfaceImplementationRule the caller holds
  parameterRules,   \* the []*ParameterRule the caller holds
  runs,             \* the violation lists returned by the checks run since the last change
  err,              \* the error returned by the last operation ("" is nil)
  args,             \* the arguments of a directly called pure function
  ret               \* what that call returned

vars == <<importRoot, Packages, Layers, laArch, rules, dependencyRules,
          interfaceRules, parameterRules, runs, err, args, ret>>

-----------------------------------------------------------------------------
(* Bounds of the model *)

MaxRules == 2       \* rules a caller collects in one list
MaxRuns == 2        \* checks run on one unmodified architecture and rule set
MaxAddRule == 2     \* successful AddRule calls on one layered architecture

-----------------------------------------------------------------------------
(* Text *)

sDomain == <<"d", "o", "m", "a", "i", "n">>
sUtils == <<"u", "t", "i", "l", "s">>
sApp == <<"a", "p", "p">>
sEntities == <<"e", "n", "t", "i", "t", "i", "e", "s">>
sHandlers == <<"h", "a", "n", "d", "l", "e", "r", "s">>
sErrors == <<"e", "r", "r", "o", "r", "s">>
sFmt == <<"f", "m", "t">>
sModule == <<"g", "i", "t", "h", "u", "b", ".", "c", "o", "m", "/", "e", "x">>
sUser == <<"U", "s", "e", "r">>
sLogger == <<"L", "o", "g", "g", "e", "r">>
sUserServiceWithLogger == <<"U", "s", "e", "r", "S", "e", "r", "v", "i", "c", "e", "W", "i", "t", "h", "L", "o", "g", "g", "e", "r">>
sUserRepositoryInterface == <<"U", "s", "e", "r", "R", "e", "p", "o", "s", "i", "t", "o", "r", "y", "I", "n", "t", "e", "r", "f", "a", "c", "e">>
sCreateUserWithLogging == <<"C", "r", "e", "a", "t", "e", "U", "s", "e", "r", "W", "i", "t", "h", "L", "o", "g", "g", "i", "n", "g">>
sUpdateUserWithExternalLogger == <<"U", "p", "d", "a", "t", "e", "U", "s", "e", "r", "W", "i", "t", "h", "E", "x", "t", "e", "r", "n", "a", "l", "L", "o", "g", "g", "e", "r">>
sLog == <<"L", "o", "g">>
sLogError == <<"L", "o", "g", "E", "r", "r", "o", "r">>
sFindByID == <<"F", "i", "n", "d", "B", "y", "I", "D">>
sSave == <<"S", "a", "v", "e">>
sString == <<"s", "t", "r", "i", "n", "g">>
sError == <<"e", "r", "r", "o", "r">>
sInfrastructure == <<"i", "n", "f", "r", "a", "s", "t", "r", "u", "c", "t", "u", "r", "e">>
sUserRepository == <<"U", "s", "e", "r", "R", "e", "p", "o", "s", "i", "t", "o", "r", "y">>
sSync == <<"s", "y", "n", "c">>
sService == <<"s", "e", "r", "v", "i", "c", "e">>
sProbeService == <<"P", "r", "o", "b", "e", "S", "e", "r", "v", "i", "c", "e">>
sUpdateProbe == <<"U", "p", "d", "a", "t", "e", "P", "r", "o", "b", "e">>

Slash == <<"/">>
Join2(a, b) == a \o Slash \o b

\* strings.TrimPrefix(s, prefix), for the one-character prefixes the code trims
TrimPrefix(s, c) == IF Len(s) > 0 /\ s[1] = c THEN SubSeq(s, 2, Len(s)) ELSE s

\* strings.TrimSuffix(s, suffix), for the one-character suffixes the code trims
TrimSuffix(s, c) == IF Len(s) > 0 /\ s[Len(s)] = c THEN SubSeq(s, 1, Len(s) - 1) ELSE s

\* strings.HasSuffix(s, suffix)
HasSuffix(s, suffix) ==
  /\ Len(suffix) <= Len(s)
  /\ SubSeq(s, Len(s) - Len(suffix) + 1, Len(s)) = suffix

\* strings.HasPrefix(s, prefix)
HasPrefix(s, prefix) ==
  /\ Len(prefix) <= Len(s)
  /\ SubSeq(s, 1, Len(prefix)) = prefix

\* strings.Contains(s, c) for a one-character c
ContainsChar(s, c) == \E i \in 1 .. Len(s) : s[i] = c

\* the concatenation of F(s[1]), F(s[2]), ...: a loop that appends to one slice
ConcatMap(F(_), s) ==
  LET it[i \in 0 .. Len(s)] == IF i = 0 THEN <<>> ELSE it[i - 1] \o F(s[i])
  IN  it[Len(s)]


\* strings.Join(parts, sep)
Join(parts, sep) ==
  LET it[i \in 0 .. Len(parts)] ==
        IF i = 0 THEN <<>>
        ELSE IF i = 1 THEN parts[1]
        ELSE it[i - 1] \o sep \o parts[i]
  IN  it[Len(parts)]

\* the orders in which a `range` over a Go map may visit the keys S
Orders(S) ==
  {o \in [1 .. Cardinality(S) -> S] : \A x \in S : \E i \in DOMAIN o : o[i] = x}

\* how many entries of the list s equal x
Count(s, x) == Cardinality({i \in DOMAIN s : s[i] = x})

-----------------------------------------------------------------------------
(* regexp: Compile and MatchString for the syntax the patterns use         *)
(* (literals, ".", "^", "$", "\c", groups, "|", "*", "+", "?").            *)
(* MatchString is an unanchored search, as in Go.                          *)

RECURSIVE CloseParen(_, _, _)
\* the index of the ")" that closes the group whose body starts at i (0: none)
CloseParen(p, i, depth) ==
  IF i > Len(p) THEN 0
  ELSE IF p[i] = "\\" THEN CloseParen(p, i + 2, depth)
  ELSE IF p[i] = "(" THEN CloseParen(p, i + 1, depth + 1)
  ELSE IF p[i] = ")" THEN (IF depth = 1 THEN i ELSE CloseParen(p, i + 1, depth - 1))
  ELSE CloseParen(p, i + 1, depth)

RECURSIVE TopBar(_, _, _, _)
\* the index of the first "|" of p[i..hi] outside every group (0: none)
TopBar(p, i, hi, depth) ==
  IF i > hi THEN 0
  ELSE IF p[i] = "\\" THEN TopBar(p, i + 2, hi, depth)
  ELSE IF p[i] = "(" THEN TopBar(p, i + 1, hi, depth + 1)
  ELSE IF p[i] = ")" THEN TopBar(p, i + 1, hi, depth - 1)
  ELSE IF p[i] = "|" /\ depth = 0 THEN i
  ELSE TopBar(p, i + 1, hi, depth)

\* the index at which the atom starting at lo ends
AtomEnd(p, lo) ==
  IF p[lo] = "(" THEN CloseParen(p, lo + 1, 1)
  ELSE IF p[lo] = "\\" THEN lo + 1
  ELSE lo

RECURSIVE MatchAlt(_, _, _, _, _)
RECURSIVE MatchConcat(_, _, _, _, _)
RECURSIVE MatchStar(_, _, _, _, _)

\* the positions of s reached from the positions P by the atom p[lo..aend]
MatchAtom(p, s, lo, aend, P) ==
  IF p[lo] = "(" THEN MatchAlt(p, s, lo + 1, aend - 1, P)
  ELSE IF p[lo] = "^" THEN P \cap {0}
  ELSE IF p[lo] = "$" THEN P \cap {Len(s)}
  ELSE IF p[lo] = "." THEN {i + 1 : i \in {j \in P : j < Len(s)}}
  ELSE IF p[lo] = "\\" THEN {i + 1 : i \in {j \in P : j < Len(s) /\ s[j + 1] = p[lo + 1]}}
  ELSE {i + 1 : i \in {j \in P : j < Len(s) /\ s[j + 1] = p[lo]}}

MatchStar(p, s, lo, aend, P) ==
  LET N == P \cup MatchAtom(p, s, lo, aend, P)
  IN  IF N = P THEN P ELSE MatchStar(p, s, lo, aend, N)

MatchConcat(p, s, lo, hi, P) ==
  IF lo > hi \/ P = {} THEN P
  ELSE LET aend == AtomEnd(p, lo)
           q == IF aend < hi THEN p[aend + 1] ELSE ""
       IN  IF q = "*"
             THEN MatchConcat(p, s, aend + 2, hi, MatchStar(p, s, lo, aend, P))
           ELSE IF q = "+"
             THEN MatchConcat(p, s, aend + 2, hi,
                              MatchStar(p, s, lo, aend, MatchAtom(p, s, lo, aend, P)))
           ELSE IF q = "?"
             THEN MatchConcat(p, s, aend + 2, hi, P \cup MatchAtom(p, s, lo, aend, P))
           ELSE MatchConcat(p, s, aend + 1, hi, MatchAtom(p, s, lo, aend, P))

MatchAlt(p, s, lo, hi, P) ==
  LET k == TopBar(p, lo, hi, 0)
  IN  IF k = 0 THEN MatchConcat(p, s, lo, hi, P)
      ELSE MatchConcat(p, s, lo, k - 1, P) \cup MatchAlt(p, s, k + 1, hi, P)

\* (*regexp.Regexp).MatchString: some substring of s matches the pattern p
MatchString(p, s) == MatchAlt(p, s, 1, Len(p), 0 .. Len(s)) # {}

RECURSIVE ParenBalance(_, _, _)
\* the groups of p[i..] are balanced when `depth` groups are open at i
ParenBalance(p, i, depth) ==
  IF i > Len(p) THEN depth = 0
  ELSE IF p[i] = "\\" THEN i < Len(p) /\ ParenBalance(p, i + 2, depth)
  ELSE IF p[i] = "(" THEN ParenBalance(p, i + 1, depth + 1)
  ELSE IF p[i] = ")" THEN depth > 0 /\ ParenBalance(p, i + 1, depth - 1)
  ELSE ParenBalance(p, i + 1, depth)

\* the character at i is taken literally: a backslash precedes it
Escaped(p, i) == i > 1 /\ p[i - 1] = "\\" /\ ~(i > 2 /\ p[i - 2] = "\\")

\* regexp.Compile(p) returns no error: the groups balance, no escape is cut
\* short, and every repetition operator has an operand
Compiles(p) ==
  /\ ParenBalance(p, 1, 0)
  /\ \A i \in 1 .. Len(p) :
       (p[i] \in {"*", "+", "?"} /\ ~Escaped(p, i))
         => i > 1 /\ (p[i - 1] \notin {"(", "|"} \/ Escaped(p, i - 1))

-----------------------------------------------------------------------------
(* The analysed project: the directories under the base path and what the  *)
(* Go parser finds in each (the example project of the repository, with    *)
(* the nested packages of the README).  A parameter type is kept as the    *)
(* syntax the extractor sees: `stars` leading "*", then an identifier, a   *)
(* selector x.name, or another shape (slice, map, func, ...).              *)

Ident(n) == [stars |-> 0, kind |-> "Ident", x |-> <<>>, name |-> n]
Selector(x, n) == [stars |-> 0, kind |-> "Selector", x |-> x, name |-> n]
OtherType == [stars |-> 0, kind |-> "Other", x |-> <<>>, name |-> <<>>]
Star(t) == [t EXCEPT !.stars = @ + 1]

Param(n, t) == [Name |-> n, Type |-> t]
Func(n, params, results) == [Name |-> n, Params |-> params, Results |-> results]
TypeDecl(n, methods) == [Name |-> n, Methods |-> methods]
Std(path) == [local |-> FALSE, path |-> path]
Local(path) == [local |-> TRUE, path |-> path]

LoggerMethods ==
  << Func(sLog, <<Param("message", Ident(sString))>>, FALSE),
     Func(sLogError, <<Param("err", Ident(sError))>>, FALSE) >>

DomainDir ==
  [ Name |-> sDomain,
    Imports |-> <<Std(sErrors), Local(sUtils)>>,
    Structs |->
      { TypeDecl(sUser, <<>>),
        TypeDecl(sUserServiceWithLogger,
          << Func(sCreateUserWithLogging,
                  <<Param("username", Ident(sString)), Param("email", Ident(sString))>>, TRUE),
             Func(sUpdateUserWithExternalLogger,
                  << Param("user", Star(Ident(sUser))),
                     Param("newEmail", Ident(sString)),
                     Param("logger", Star(Selector(sUtils, sLogger))) >>, TRUE) >>) },
    Interfaces |->
      { TypeDecl(sLogger, LoggerMethods),
        TypeDecl(sUserRepositoryInterface,
          << Func(sFindByID, <<Param("id", Ident(sString))>>, TRUE),
             Func(sSave, <<Param("user", Star(Ident(sUser)))>>, TRUE) >>) } ]

EntitiesDir ==
  [ Name |-> sEntities,
    Imports |-> <<Std(sErrors)>>,
    Structs |-> {},
    Interfaces |-> {} ]

UtilsDir ==
  [ Name |-> sUtils,
    Imports |-> <<Std(sFmt)>>,
    Structs |-> {TypeDecl(sLogger, LoggerMethods)},
    Interfaces |-> {} ]

AppDir ==
  [ Name |-> sApp,
    Imports |-> <<Local(sDomain), Local(sDomain)>>,
    Structs |-> {},
    Interfaces |-> {} ]

HandlersDir ==
  [ Name |-> sHandlers,
    Imports |-> <<Local(sDomain), Local(sUtils)>>,
    Structs |-> {},
    Interfaces |-> {} ]

\* infrastructure/user_repository.go, with the two methods kept in
\* UserRepositoryInterface above
InfrastructureDir ==
  [ Name |-> sInfrastructure,
    Imports |-> <<Std(sErrors), Std(sSync), Local(sDomain)>>,
    Structs |->
      { TypeDecl(sUserRepository,
          << Func(sFindByID, <<Param("id", Ident(sString))>>, TRUE),
             Func(sSave, <<Param("user", Star(Selector(sDomain, sUser)))>>, TRUE) >>) },
    Interfaces |-> {} ]

\* a service whose one method takes a parameter of type T and a parameter of
\* type pointer-to-T
ServiceDir(T) ==
  [ Name |-> sService,
    Imports |-> <<Local(sDomain), Local(sUtils)>>,
    Structs |->
      { TypeDecl(sProbeService,
          <<Func(sUpdateProbe, <<Param("plain", T), Param("pointer", Star(T))>>, FALSE)>>) },
    Interfaces |-> {} ]

\* the directories holding Go source, by path relative to the base path
sInternal == <<"i", "n", "t", "e", "r", "n", "a", "l">>
sPkg == <<"p", "k", "g">>
sVendor == <<"v", "e", "n", "d", "o", "r">>
sLib == <<"l", "i", "b">>
sHidden == <<".", "h", "i", "d", "d", "e", "n">>

\* the directories with non-test Go files
Dirs ==
  { sDomain, Join2(sDomain, sEntities), sUtils, sApp, Join2(sApp, sHandlers),
    sInfrastructure, sService,
    Join2(sInternal, sEntities), Join2(Join2(sInternal, sPkg), sEntities),
    Join2(sVendor, sLib), Join2(sHidden, sPkg) }

\* the directories without one
EmptyDirs == {sInternal, Join2(sInternal, sPkg), sVendor, sHidden}

\* every directory below the base path, in the order of file names
SortedDirs ==
  << sHidden, Join2(sHidden, sPkg),
     sApp, Join2(sApp, sHandlers), sDomain, Join2(sDomain, sEntities), sInfrastructure,
     sInternal, Join2(sInternal, sEntities), Join2(sInternal, sPkg),
     Join2(Join2(sInternal, sPkg), sEntities), sService, sUtils,
     sVendor, Join2(sVendor, sLib) >>

SourceDir(p, T) ==
  CASE p = sDomain -> DomainDir
    [] p = Join2(sDomain, sEntities) -> EntitiesDir
    [] p = sUtils -> UtilsDir
    [] p = sApp -> AppDir
    [] p = Join2(sApp, sHandlers) -> HandlersDir
    [] p = sInfrastructure -> InfrastructureDir
    [] p = sService -> ServiceDir(T)
    [] p = Join2(sInternal, sEntities) -> EntitiesDir
    [] p = Join2(Join2(sInternal, sPkg), sEntities) -> EntitiesDir
    [] p = Join2(sVendor, sLib) -> EntitiesDir
    [] p = Join2(sHidden, sPkg) -> EntitiesDir

\* the two ways the project's own packages are imported
ImportRoots == {<<>>, sModule \o Slash}

-----------------------------------------------------------------------------
(* Source Model Extractor (pkg/arctest/arctest.go) *)

\* the text recorded for a parameter type
TypeText(t) ==
  IF t.stars = 0
    THEN IF t.kind = "Ident" THEN t.name
         ELSE IF t.kind = "Selector" THEN t.x \o <<".">> \o t.name
         ELSE <<>>
  ELSE IF t.stars = 1
    THEN IF t.kind = "Ident" THEN <<"*">> \o t.name
         ELSE IF t.kind = "Selector" THEN <<"*">> \o t.x \o <<".">> \o t.name
         ELSE <<>>
  ELSE <<>>

\* a Method, from a method declaration or an interface method
ExtractMethod(f) ==
  [ Name |-> f.Name,
    Params |-> [i \in DOMAIN f.Params |->
                  [Name |-> f.Params[i].Name, Type |-> TypeText(f.Params[i].Type)]],
    ReturnType |-> IF f.Results THEN "has_return" ELSE "" ]

\* the map name -> Struct (or Interface) of a package
ExtractTypes(decls, p) ==
  [n \in {d.Name : d \in decls} |->
     LET d == CHOOSE d \in decls : d.Name = n
     IN  [ Name |-> n,
           Methods |-> [i \in DOMAIN d.Methods |-> ExtractMethod(d.Methods[i])],
           Pkg |-> p ]]

\* the Package parsePackageDir registers for directory p
ExtractPackage(p, root, T) ==
  LET d == SourceDir(p, T)
  IN  [ Name |-> d.Name,
        Path |-> p,
        Imports |-> [i \in DOMAIN d.Imports |->
                       IF d.Imports[i].local THEN root \o d.Imports[i].path
                       ELSE d.Imports[i].path],
        Structs |-> ExtractTypes(d.Structs, p),
        Interfaces |-> ExtractTypes(d.Interfaces, p) ]

\* the subdirectories of p that hold Go source
SubDirs(p) ==
  {d \in Dirs : /\ HasPrefix(d, p \o Slash)
                /\ ~ContainsChar(SubSeq(d, Len(p) + 2, Len(d)), "/")}

RECURSIVE ParsedDirs(_)
\* the directories ParsePackage(p) registers: p and, recursively, its subdirectories
ParsedDirs(p) == ({p} \cap Dirs) \cup UNION {ParsedDirs(c) : c \in SubDirs(p)}

\* a.Packages after ParsePackage(p)
ParsePackage(packages, p, root, T) ==
  [d \in DOMAIN packages \cup ParsedDirs(p) |->
     IF d \in ParsedDirs(p) THEN ExtractPackage(d, root, T) ELSE packages[d]]

-----------------------------------------------------------------------------
(* Dependency Rule Engine *)

\* NewDependencyRule: the rule, or the error of the pattern that does not compile
NewDependencyRule(sourcePattern, targetPattern, allowedImports) ==
  IF ~Compiles(sourcePattern) THEN [rule |-> <<>>, err |-> "invalid source pattern"]
  ELSE IF ~Compiles(targetPattern) THEN [rule |-> <<>>, err |-> "invalid target pattern"]
  ELSE [ rule |-> << [ SourcePattern |-> sourcePattern,
                       TargetPattern |-> targetPattern,
                       AllowedImports |-> allowedImports ] >>,
         err |-> "" ]

\* the message of a CheckDependencies violation, as the arguments formatted into it
DependencyViolation(pkgPath, importPath, rule) ==
  [ kind |-> "dependency", pkg |-> pkgPath, import |-> importPath,
    source |-> rule.SourcePattern, target |-> rule.TargetPattern ]

\* mutant: the AllowedImports flag is not read
RuleViolatedIgnoringAllowed(rule, pkgPath, importPath) ==
  /\ MatchString(rule.SourcePattern, pkgPath)
  /\ MatchString(rule.TargetPattern, importPath)

\* the three nested conditions under which CheckDependencies appends a violation
RuleViolated(rule, pkgPath, importPath) ==
  /\ MatchString(rule.SourcePattern, pkgPath)
  /\ MatchString(rule.TargetPattern, importPath)
  /\ ~rule.AllowedImports

\* CheckDependencies, with the map a.Packages visited in the order `order`
CheckDependencies(packages, order, ruleList) ==
  LET ForRule(pkgPath, importPath) ==
        LET F(rule) == IF RuleViolated(rule, pkgPath, importPath)
                       THEN <<DependencyViolation(pkgPath, importPath, rule)>>
                       ELSE <<>>
        IN  ConcatMap(F, ruleList)
      ForPackage(pkgPath) ==
        LET F(importPath) == ForRule(pkgPath, importPath)
        IN  ConcatMap(F, packages[pkgPath].Imports)
  IN  ConcatMap(ForPackage, order)

-----------------------------------------------------------------------------
(* Layers *)

\* NewLayer(name, packages...)
NewLayer(name, packages) == [Name |-> name, Packages |-> packages, arch |-> FALSE]

\* Layer.Contains
Contains(l, pkgPath) == \E i \in DOMAIN l.Packages : MatchString(l.Packages[i], pkgPath)

\* the pattern "(^|/)<fragment>$" built from a layer pattern with its anchors trimmed
SuffixPattern(pkg) ==
  <<"(", "^", "|", "/", ")">> \o TrimSuffix(TrimPrefix(pkg, "^"), "$") \o <<"$">>

\* Layer.DoesNotDependOn(targetPattern)
LayerDoesNotDependOn(l, targetPattern) ==
  IF ~l.arch THEN [rule |-> <<>>, err |-> "layer is not associated with an architecture"]
  ELSE NewDependencyRule(
         Join([i \in DOMAIN l.Packages |-> SuffixPattern(l.Packages[i])], <<"|">>),
         targetPattern, FALSE)

\* mutant: the last layer so named is returned
WhereLayerLast(layers, name) ==
  IF \E i \in DOMAIN layers : layers[i].Name = name
    THEN CHOOSE i \in DOMAIN layers :
           layers[i].Name = name /\ \A j \in i + 1 .. Len(layers) : layers[j].Name # name
    ELSE 0

\* LayeredArchitecture.WhereLayer(name): the index of the first layer so named (0: nil)
WhereLayer(layers, name) ==
  IF \E i \in DOMAIN layers : layers[i].Name = name
    THEN CHOOSE i \in DOMAIN layers :
           layers[i].Name = name /\ \A j \in 1 .. i - 1 : layers[j].Name # name
    ELSE 0

\* the body of AddRule's two loops: one allow rule per (source pattern, target
\* pattern) pair, appended to la.rules until a rule fails to compile
AddRulePairs(sourceLayer, targetLayer, laRules) ==
  LET m == Len(targetLayer.Packages)
      n == Len(sourceLayer.Packages) * m
      pair[k \in 1 .. n] ==
        NewDependencyRule(SuffixPattern(sourceLayer.Packages[((k - 1) \div m) + 1]),
                          SuffixPattern(targetLayer.Packages[((k - 1) % m) + 1]), TRUE)
      it[k \in 0 .. n] ==
        IF k = 0 THEN [rules |-> laRules, err |-> ""]
        ELSE IF it[k - 1].err # "" THEN it[k - 1]
        ELSE [rules |-> it[k - 1].rules \o pair[k].rule, err |-> pair[k].err]
  IN  it[n]

\* LayeredArchitecture.AddRule(sourceLayerName, targetLayerName): la.rules and the error
AddRule(layers, laRules, sourceLayerName, targetLayerName) ==
  IF WhereLayer(layers, sourceLayerName) = 0
    THEN [rules |-> laRules, err |-> "source layer not found"]
  ELSE IF WhereLayer(layers, targetLayerName) = 0
    THEN [rules |-> laRules, err |-> "target layer not found"]
  ELSE AddRulePairs(layers[WhereLayer(layers, sourceLayerName)],
                    layers[WhereLayer(layers, targetLayerName)], laRules)

\* mutant: the last layer containing the package owns it
PackageLayerLast(layers, pkgPath) ==
  IF \E i \in DOMAIN layers : Contains(layers[i], pkgPath)
    THEN CHOOSE i \in DOMAIN layers :
           /\ Contains(layers[i], pkgPath)
           /\ \A j \in i + 1 .. Len(layers) : ~Contains(layers[j], pkgPath)
    ELSE 0

\* Check: the layer owning a package, the first layer containing it (0: none)
PackageLayer(layers, pkgPath) ==
  IF \E i \in DOMAIN layers : Contains(layers[i], pkgPath)
    THEN CHOOSE i \in DOMAIN layers :
           Contains(layers[i], pkgPath) /\ \A j \in 1 .. i - 1 : ~Contains(layers[j], pkgPath)
    ELSE 0

\* mutant: an import belongs to a layer only when one of its patterns matches
LayerHasImportByPatternOnly(l, importPath) ==
  \E i \in DOMAIN l.Packages : MatchString(l.Packages[i], importPath)

\* mutant: the suffix test is made against the pattern of the iteration
LayerHasImportBySuffixOfAnyPattern(l, importPath) ==
  \E i \in DOMAIN l.Packages :
    \/ MatchString(l.Packages[i], importPath)
    \/ HasSuffix(importPath, Slash \o TrimPrefix(TrimSuffix(l.Packages[i], "$"), "^"))

\* Check: the test made for each pattern of a layer, until one passes
LayerHasImport(l, importPath) ==
  \E i \in DOMAIN l.Packages :
    \/ MatchString(l.Packages[i], importPath)
    \/ HasSuffix(importPath, Slash \o TrimPrefix(TrimSuffix(l.Packages[1], "$"), "^"))

\* Check: the layer an import belongs to, the first layer passing the test (0: none)
ImportLayer(layers, importPath) ==
  IF \E i \in DOMAIN layers : LayerHasImport(layers[i], importPath)
    THEN CHOOSE i \in DOMAIN layers :
           /\ LayerHasImport(layers[i], importPath)
           /\ \A j \in 1 .. i - 1 : ~LayerHasImport(layers[j], importPath)
    ELSE 0

\* mutant: the last rule matching the package and the import decides
AllowedByLastMatchingRule(laRules, pkgPath, importPath) ==
  \E i \in DOMAIN laRules :
    /\ MatchString(laRules[i].SourcePattern, pkgPath)
    /\ MatchString(laRules[i].TargetPattern, importPath)
    /\ laRules[i].AllowedImports
    /\ \A j \in i + 1 .. Len(laRules) :
         ~(/\ MatchString(laRules[j].SourcePattern, pkgPath)
           /\ MatchString(laRules[j].TargetPattern, importPath))

\* mutant: the import is allowed when exactly one rule allows it
AllowedByExactlyOneRule(laRules, pkgPath, importPath) ==
  Cardinality({i \in DOMAIN laRules :
                 /\ MatchString(laRules[i].SourcePattern, pkgPath)
                 /\ MatchString(laRules[i].TargetPattern, importPath)
                 /\ laRules[i].AllowedImports}) = 1

\* Check: some rule of la.rules allows the import
AllowedByRules(laRules, pkgPath, importPath) ==
  \E i \in DOMAIN laRules :
    /\ MatchString(laRules[i].SourcePattern, pkgPath)
    /\ MatchString(laRules[i].TargetPattern, importPath)
    /\ laRules[i].AllowedImports

\* the message of a Check violation, as the arguments formatted into it
LayerViolation(pkgPath, sourceLayer, importPath, targetLayer) ==
  [ kind |-> "layer", pkg |-> pkgPath, sourceLayer |-> sourceLayer.Name,
    import |-> importPath, targetLayer |-> targetLayer.Name ]

\* mutant: an import without a dot or a slash is checked like any other
CheckImportKeepingBareImports(layers, laRules, pkgPath, s, importPath) ==
  LET t == ImportLayer(layers, importPath)
  IN  IF t = 0 \/ t = s \/ AllowedByRules(laRules, pkgPath, importPath) THEN <<>>
      ELSE <<LayerViolation(pkgPath, layers[s], importPath, layers[t])>>

\* Check: what one import of a package of layer s adds to the violations
CheckImport(layers, laRules, pkgPath, s, importPath) ==
  IF ~ContainsChar(importPath, ".") /\ ~ContainsChar(importPath, "/") THEN <<>>
  ELSE LET t == ImportLayer(layers, importPath)
       IN  IF t = 0 \/ t = s \/ AllowedByRules(laRules, pkgPath, importPath) THEN <<>>
           ELSE <<LayerViolation(pkgPath, layers[s], importPath, layers[t])>>

\* LayeredArchitecture.Check, with the map arch.Packages visited in the order `order`
Check(layers, laRules, packages, order) ==
  LET ForPackage(pkgPath) ==
        LET s == PackageLayer(layers, pkgPath)
            F(importPath) == CheckImport(layers, laRules, pkgPath, s, importPath)
        IN  IF s = 0 THEN <<>> ELSE ConcatMap(F, packages[pkgPath].Imports)
  IN  ConcatMap(ForPackage, order)

\* LayeredArchitecture.SetArchitecture: every layer gets the reference
BindLayers(layers) == [i \in DOMAIN layers |-> [layers[i] EXCEPT !.arch = TRUE]]

pDomain == <<"^">> \o sDomain \o <<"$">>
pUtils == <<"^">> \o sUtils \o <<"$">>

\* the layers the examples declare, with the anchored patterns of the tests
\* and with the bare package names
DomainUtilsAnchored == <<NewLayer("Domain", <<pDomain>>), NewLayer("Utils", <<pUtils>>)>>
DomainUtilsBare == <<NewLayer("Domain", <<sDomain>>), NewLayer("Utils", <<sUtils>>)>>
DomainAppUtilsBare ==
  <<NewLayer("Domain", <<sDomain>>), NewLayer("App", <<sApp>>), NewLayer("Utils", <<sUtils>>)>>
LayerNames == {"Domain", "App", "Utils"}

-----------------------------------------------------------------------------
(* Operations shared by the specifications *)

\* Architecture.ParsePackages(p)
ParsePackages(p) ==
  /\ Packages' = ParsePackage(Packages, p, importRoot, args)
  /\ runs' = <<>>
  /\ err' = ""
  /\ UNCHANGED <<importRoot, Layers, laArch, rules, dependencyRules,
                 interfaceRules, parameterRules, args, ret>>

\* LayeredArchitecture.SetArchitecture(arch)
SetArchitecture ==
  /\ laArch' = TRUE
  /\ Layers' = BindLayers(Layers)
  /\ err' = ""
  /\ UNCHANGED <<importRoot, Packages, rules, dependencyRules,
                 interfaceRules, parameterRules, runs, args, ret>>

\* the caller keeps the rule a constructor returned, or sees its error
KeepDependencyRule(r) ==
  /\ Len(dependencyRules) < MaxRules
  /\ dependencyRules' = dependencyRules \o r.rule
  /\ runs' = IF r.err = "" THEN <<>> ELSE runs
  /\ err' = r.err
  /\ UNCHANGED <<importRoot, Packages, Layers, laArch, rules,
                 interfaceRules, parameterRules, args, ret>>

\* Layer.DoesNotDependOn(targetPattern) on the i-th layer
DoesNotDependOn(i, targetPattern) ==
  KeepDependencyRule(LayerDoesNotDependOn(Layers[i], targetPattern))

\* Architecture.DependsOn(sourcePattern, targetPattern)
ArchDependsOn(sourcePattern, targetPattern) ==
  KeepDependencyRule(NewDependencyRule(sourcePattern, targetPattern, TRUE))

\* Architecture.DoesNotDependOn(sourcePattern, targetPattern)
ArchDoesNotDependOn(sourcePattern, targetPattern) ==
  KeepDependencyRule(NewDependencyRule(sourcePattern, targetPattern, FALSE))

\* Architecture.ValidateDependenciesWithRules(dependencyRules)
ValidateDependenciesWithRules(order) ==
  /\ Len(runs) < MaxRuns
  /\ runs' = Append(runs, CheckDependencies(Packages, order, dependencyRules))
  /\ err' = ""
  /\ UNCHANGED <<importRoot, Packages, Layers, laArch, rules, dependencyRules,
                 interfaceRules, parameterRules, args, ret>>

\* LayeredArchitecture.AddRule(sourceLayerName, targetLayerName)
AddRuleCall(sourceLayerName, targetLayerName) ==
  LET r == AddRule(Layers, rules, sourceLayerName, targetLayerName)
  IN  /\ Len(rules) < MaxAddRule
      /\ rules' = r.rules
      /\ runs' = IF r.rules = rules THEN runs ELSE <<>>
      /\ err' = r.err
      /\ UNCHANGED <<importRoot, Packages, Layers, laArch, dependencyRules,
                     interfaceRules, parameterRules, args, ret>>

\* LayeredArchitecture.Check(arch): binds the architecture, then checks
CheckCall(order) ==
  /\ laArch' = TRUE
  /\ Layers' = BindLayers(Layers)
  /\ runs' = <<Check(Layers, rules, Packages, order)>>
  /\ err' = ""
  /\ UNCHANGED <<importRoot, Packages, rules, dependencyRules,
                 interfaceRules, parameterRules, args, ret>>

-----------------------------------------------------------------------------
(* SpecDeps: a caller parses packages, builds dependency rules and checks them *)

InitDeps ==
  /\ importRoot \in ImportRoots
  /\ Packages = <<>>
  /\ Layers \in {DomainUtilsAnchored, DomainUtilsBare}
  /\ laArch = FALSE
  /\ rules = <<>>
  /\ dependencyRules = <<>>
  /\ interfaceRules = <<>>
  /\ parameterRules = <<>>
  /\ runs = <<>>
  /\ err = ""
  /\ args = <<>>
  /\ ret = <<>>

NextDeps ==
  \/ \E p \in {sDomain, sUtils} : ParsePackages(p)
  \/ SetArchitecture
  \/ \E i \in DOMAIN Layers, tp \in {pUtils, sErrors} : DoesNotDependOn(i, tp)
  \/ \E tp \in {pUtils, sErrors} : ArchDependsOn(sDomain, tp)
  \/ \E tp \in {pUtils, sErrors} : ArchDoesNotDependOn(sDomain, tp)
  \/ \E order \in Orders(DOMAIN Packages) : ValidateDependenciesWithRules(order)

SpecDeps == InitDeps /\ [][NextDeps]_vars

\* the (package, import entry, rule) triples of the current architecture and rule list
DependencyTriples ==
  UNION {{<<p, i, j>> : i \in DOMAIN Packages[p].Imports, j \in DOMAIN dependencyRules} :
         p \in DOMAIN Packages}

\* the triples whose rule is a disallow rule matching the package and the import
DisallowedTriples ==
  {t \in DependencyTriples :
     /\ ~dependencyRules[t[3]].AllowedImports
     /\ MatchString(dependencyRules[t[3]].SourcePattern, t[1])
     /\ MatchString(dependencyRules[t[3]].TargetPattern, Packages[t[1]].Imports[t[2]])}

TripleMessage(t) ==
  DependencyViolation(t[1], Packages[t[1]].Imports[t[2]], dependencyRules[t[3]])

\* C1: CheckDependencies returns one violation for each (package, import entry,
\* rule) triple whose rule is a disallow rule matching both the package path and
\* the import path, and nothing else; a list of allow rules alone yields no violation.
C1_OneViolationPerDisallowedTriple ==
  runs # <<>> =>
    LET hits == DisallowedTriples
        messages == [t \in hits |-> TripleMessage(t)]
    IN  \A k \in DOMAIN runs :
          /\ Len(runs[k]) = Cardinality(hits)
          /\ \A t \in hits :
               Count(runs[k], messages[t]) = Cardinality({u \in hits : messages[u] = messages[t]})
          /\ (\A j \in DOMAIN dependencyRules : dependencyRules[j].AllowedImports)
               => runs[k] = <<>>

\* C1 witness: two disallow rules match the same import of the same package and
\* the check has returned a violation for each
C1_Witness ==
  /\ Len(runs) > 0
  /\ Len(dependencyRules) = 2
  /\ \A j \in DOMAIN dependencyRules : ~dependencyRules[j].AllowedImports
  /\ \E p \in DOMAIN Packages : \E i \in DOMAIN Packages[p].Imports :
       /\ <<p, i, 1>> \in DisallowedTriples
       /\ <<p, i, 2>> \in DisallowedTriples
       /\ Count(runs[1], TripleMessage(<<p, i, 1>>)) >= 1
       /\ Count(runs[1], TripleMessage(<<p, i, 2>>)) >= 1

\* C9 (as claimed): two checks of the same unmodified architecture and rule list
\* return the same violations in the same order
C9_SameViolationsSameOrder ==
  Len(runs) >= 2 => runs[1] = runs[2]

-----------------------------------------------------------------------------
(* Spec: a caller parses packages, declares layers and allow rules, and    *)
(* checks the layered architecture                                         *)

Init ==
  /\ importRoot \in ImportRoots
  /\ Packages = <<>>
  /\ Layers \in {DomainUtilsAnchored, DomainUtilsBare, DomainAppUtilsBare}
  /\ laArch = FALSE
  /\ rules = <<>>
  /\ dependencyRules = <<>>
  /\ interfaceRules = <<>>
  /\ parameterRules = <<>>
  /\ runs = <<>>
  /\ err = ""
  /\ args = <<>>
  /\ ret = <<>>

Next ==
  \/ \E p \in {sDomain, sApp} : ParsePackages(p)
  \/ SetArchitecture
  \/ \E s \in LayerNames : \E t \in LayerNames \ {s} : AddRuleCall(s, t)
  \/ \E order \in Orders(DOMAIN Packages) : CheckCall(order)

Spec == Init /\ [][Next]_vars

\* the violations of one check that are about package p
AboutPackage(run, p) == {n \in DOMAIN run : run[n].pkg = p}

\* C10 (as claimed): when the only rule checked is the one Layer.DoesNotDependOn
\* returned for a layer and a target pattern, every package the layer contains
\* gets one violation per import matching the pattern, a package it does not
\* contain gets none, and the layer ^domain$ with target ^utils$ reports the
\* import of the utils package by the package domain
C10_LayerRuleAppliesToLayerPackages ==
  \A i \in DOMAIN Layers, tp \in {pUtils, sErrors} :
    LET r == LayerDoesNotDependOn(Layers[i], tp)
    IN  (r.err = "" /\ dependencyRules = r.rule) =>
          \A k \in DOMAIN runs :
            /\ \A p \in DOMAIN Packages :
                 Cardinality(AboutPackage(runs[k], p)) =
                   IF Contains(Layers[i], p)
                     THEN Cardinality({n \in DOMAIN Packages[p].Imports :
                                         MatchString(tp, Packages[p].Imports[n])})
                     ELSE 0
            /\ (Layers[i].Packages = <<pDomain>> /\ tp = pUtils /\ sDomain \in DOMAIN Packages)
                 => \E n \in DOMAIN runs[k] :
                      /\ runs[k][n].pkg = sDomain
                      /\ runs[k][n].import = importRoot \o sUtils

\* the declarations of the layers, whatever architecture they are bound to
LayerDecls == [i \in DOMAIN Layers |-> NewLayer(Layers[i].Name, Layers[i].Packages)]

\* AddRule(s, t) has succeeded: the allow rules it makes are in la.rules
PairAllowed(s, t) ==
  LET r == AddRule(Layers, <<>>, s, t)
  IN  /\ r.err = ""
      /\ r.rules # <<>>
      /\ \A i \in DOMAIN r.rules : \E j \in DOMAIN rules : rules[j] = r.rules[i]

\* the case of C7: layers Domain and Utils, the package domain parsed with its
\* one import of the utils package, no allow rule from Domain to Utils, and a
\* check made
C7_Scenario ==
  /\ LayerDecls \in {DomainUtilsAnchored, DomainUtilsBare}
  /\ sDomain \in DOMAIN Packages
  /\ Cardinality({n \in DOMAIN Packages[sDomain].Imports :
                    Packages[sDomain].Imports[n] = importRoot \o sUtils}) = 1
  /\ ~PairAllowed("Domain", "Utils")
  /\ runs # <<>>

\* the one violation C7 expects
C7_Expected ==
  <<LayerViolation(sDomain, Layers[1], importRoot \o sUtils, Layers[2])>>

C8_AllowedPairNeverReported ==
  \A k \in DOMAIN runs : \A n \in DOMAIN runs[k] :
    ~PairAllowed(runs[k][n].sourceLayer, runs[k][n].targetLayer)

-----------------------------------------------------------------------------
(* SpecCheck: a caller parses packages, declares layers (with overlapping  *)
(* patterns, several patterns, no pattern, a repeated name), adds allow    *)
(* rules and dependency constraints, and checks the layered architecture   *)

pLib == <<"^">> \o sLib \o <<"$">>
pHandlersEnd == sHandlers \o <<"$">>

\* app/handlers is contained in App and in Handlers; App also takes the
\* package domain and the imports of it
AppHandlersUtils ==
  << NewLayer("App", <<sApp, sDomain>>), NewLayer("Handlers", <<sHandlers>>),
     NewLayer("Utils", <<sUtils>>) >>

\* Shared has two patterns, the second with the anchors of the utils package;
\* Core repeats the domain package without anchors
DomainSharedCore ==
  << NewLayer("Domain", <<pDomain>>), NewLayer("Shared", <<pHandlersEnd, pUtils>>),
     NewLayer("Core", <<sDomain>>) >>

\* two layers named Utils, the first declared without a pattern
DomainUtilsTwice ==
  << NewLayer("Domain", <<pDomain>>), NewLayer("Utils", <<>>),
     NewLayer("Utils", <<pLib, sUtils>>) >>

\* the pairs of layer names the caller passes to AddRule
AddRuleArgs ==
  { <<"Domain", "Utils">>, <<"Utils", "Domain">>, <<"Handlers", "Utils">>,
    <<"App", "Utils">>, <<"Shared", "Domain">>, <<"Domain", "Shared">>,
    <<"Other", "Utils">>, <<"Domain", "Other">> }

\* the rules the caller builds for AddDependencyConstraint
ConstraintRules ==
  { NewDependencyRule(sDomain, sUtils, FALSE),
    NewDependencyRule(sHandlers, sUtils, TRUE) }

\* LayeredArchitecture.AddDependencyConstraint(rule), with the rule a
\* constructor returned
AddDependencyConstraintCall(r) ==
  /\ r.err = ""
  /\ Len(rules) < MaxAddRule
  /\ rules' = rules \o r.rule
  /\ runs' = <<>>
  /\ err' = ""
  /\ UNCHANGED <<importRoot, Packages, Layers, laArch, dependencyRules,
                 interfaceRules, parameterRules, args, ret>>

InitCheck ==
  /\ importRoot \in ImportRoots
  /\ Packages = <<>>
  /\ Layers \in {DomainUtilsAnchored, AppHandlersUtils, DomainSharedCore, DomainUtilsTwice}
  /\ laArch = FALSE
  /\ rules = <<>>
  /\ dependencyRules = <<>>
  /\ interfaceRules = <<>>
  /\ parameterRules = <<>>
  /\ runs = <<>>
  /\ err = ""
  /\ args = <<>>
  /\ ret = <<>>

NextCheck ==
  \/ \E p \in {sDomain, Join2(sApp, sHandlers)} : ParsePackages(p)
  \/ \E pair \in AddRuleArgs : AddRuleCall(pair[1], pair[2])
  \/ \E r \in ConstraintRules : AddDependencyConstraintCall(r)
  \/ \E order \in Orders(DOMAIN Packages) : CheckCall(order)

SpecCheck == InitCheck /\ [][NextCheck]_vars

\* the least of a non-empty set of indices
Least(S) == CHOOSE x \in S : \A y \in S : x <= y

\* the layers containing package p, and the first of them (0: none)
Owners(p) == {i \in DOMAIN Layers : Contains(Layers[i], p)}
Owner(p) == IF Owners(p) = {} THEN 0 ELSE Least(Owners(p))

\* a layer pattern with its anchors stripped
Stripped(pattern) == TrimPrefix(TrimSuffix(pattern, "$"), "^")

\* the layers with some pattern matching the import path, or whose first
\* declared pattern, stripped, is a '/'-delimited suffix of it; and the first
\* of them (0: none)
Resolving(imp) ==
  {i \in DOMAIN Layers :
     \/ \E j \in DOMAIN Layers[i].Packages : MatchString(Layers[i].Packages[j], imp)
     \/ /\ Layers[i].Packages # <<>>
        /\ HasSuffix(imp, Slash \o Stripped(Layers[i].Packages[1]))}
Resolved(imp) == IF Resolving(imp) = {} THEN 0 ELSE Least(Resolving(imp))

\* the violations of one check about package p importing imp
Reported(run, p, imp) == {n \in DOMAIN run : run[n].pkg = p /\ run[n].import = imp}

\* the import has a dot or a slash
Qualified(imp) == ContainsChar(imp, ".") \/ ContainsChar(imp, "/")

\* C21: whatever rules are declared, every violation Check reports is about a
\* package contained in some layer, names the first layer containing it in
\* declared order as its layer, and is about an import that is resolved to a
\* layer other than that one
C21_OnlyOwnedCrossLayerImportsReported ==
  \A k \in DOMAIN runs : \A n \in DOMAIN runs[k] :
    /\ Owner(runs[k][n].pkg) # 0
    /\ runs[k][n].sourceLayer = Layers[Owner(runs[k][n].pkg)].Name
    /\ Resolved(runs[k][n].import) # 0
    /\ Resolved(runs[k][n].import) # Owner(runs[k][n].pkg)

\* C21 witness: a checked package is contained in two layers, has an import
\* resolved to the first of them, and is reported once, under the first of them
C21_Witness ==
  /\ runs # <<>>
  /\ \E p \in DOMAIN Packages :
       /\ Cardinality(Owners(p)) >= 2
       /\ \E i \in DOMAIN Packages[p].Imports :
            /\ Qualified(Packages[p].Imports[i])
            /\ Resolved(Packages[p].Imports[i]) = Owner(p)
            /\ Reported(runs[1], p, Packages[p].Imports[i]) = {}
       /\ \E n \in DOMAIN runs[1] :
            /\ runs[1][n].pkg = p
            /\ runs[1][n].sourceLayer = Layers[Owner(p)].Name

\* C22: no violation Check reports is about an import path that has neither
\* a dot nor a slash, even when the path matches a pattern of another layer
\* and no rule allows the import
C22_BareImportNeverReported ==
  \A k \in DOMAIN runs : \A n \in DOMAIN runs[k] : Qualified(runs[k][n].import)

\* C22 witness: a checked package owned by a layer imports a path without dot
\* or slash that a pattern of another layer matches, and no rule allows it
C22_Witness ==
  /\ runs # <<>>
  /\ \E p \in DOMAIN Packages : \E i \in DOMAIN Packages[p].Imports :
       /\ Owner(p) # 0
       /\ ~Qualified(Packages[p].Imports[i])
       /\ \E t \in DOMAIN Layers \ {Owner(p)} : Contains(Layers[t], Packages[p].Imports[i])
       /\ Resolved(Packages[p].Imports[i]) \notin {0, Owner(p)}
       /\ ~AllowedByRules(rules, p, Packages[p].Imports[i])

\* C23: every violation names as the import's layer the first layer, in
\* declared order, that has some pattern matching the import path or whose
\* first declared pattern, anchors stripped, is a '/'-delimited suffix of it;
\* and an import with a dot or a slash of an owned package that no rule allows
\* is reported exactly when that layer exists and is not the owning layer (so
\* a suffix match against a later pattern alone, or a layer without patterns,
\* resolves nothing)
C23_ImportResolvedToFirstLayer ==
  \A k \in DOMAIN runs :
    /\ \A n \in DOMAIN runs[k] :
         /\ Resolved(runs[k][n].import) # 0
         /\ runs[k][n].targetLayer = Layers[Resolved(runs[k][n].import)].Name
    /\ \A p \in DOMAIN Packages : \A i \in DOMAIN Packages[p].Imports :
         (/\ Owner(p) # 0
          /\ Qualified(Packages[p].Imports[i])
          /\ ~AllowedByRules(rules, p, Packages[p].Imports[i]))
           => (Reported(runs[k], p, Packages[p].Imports[i]) # {}
                 <=> Resolved(Packages[p].Imports[i]) \notin {0, Owner(p)})

\* C23 witness: a checked package owned by a layer imports a path of which the
\* second pattern of another layer, anchors stripped, is a suffix; no layer
\* resolves the import, no rule is declared and nothing is reported for it
C23_Witness ==
  /\ runs # <<>>
  /\ rules = <<>>
  /\ \E p \in DOMAIN Packages : \E i \in DOMAIN Packages[p].Imports :
       /\ Owner(p) # 0
       /\ Qualified(Packages[p].Imports[i])
       /\ Resolved(Packages[p].Imports[i]) = 0
       /\ \E t \in DOMAIN Layers \ {Owner(p)} : \E j \in 2 .. Len(Layers[t].Packages) :
            HasSuffix(Packages[p].Imports[i], Slash \o Stripped(Layers[t].Packages[j]))
       /\ Reported(runs[1], p, Packages[p].Imports[i]) = {}

\* a layer without patterns and a later layer resolving the import by its
\* second pattern: the import is reported against the later layer
C23_SecondPatternMatches ==
  /\ runs # <<>>
  /\ \E n \in DOMAIN runs[1] :
       /\ Layers[Resolved(runs[1][n].import)].Packages # <<>>
       /\ ~MatchString(Layers[Resolved(runs[1][n].import)].Packages[1], runs[1][n].import)
       /\ \E e \in 1 .. Resolved(runs[1][n].import) - 1 : Layers[e].Packages = <<>>

\* the layers with a name
Named(name) == {i \in DOMAIN Layers : Layers[i].Name = name}

\* C24: a call AddRule(source, target) with a name no layer has returns an
\* error and leaves la.rules as it was; any other call returns no error,
\* leaves the rules already in la.rules in place and appends to them one allow
\* rule per pair of a pattern of the first layer named source and a pattern of
\* the first layer named target
C24_AddRuleAppendsAllowRules ==
  [][\A pair \in AddRuleArgs :
       AddRuleCall(pair[1], pair[2]) =>
         IF Named(pair[1]) = {} \/ Named(pair[2]) = {}
           THEN err' # "" /\ rules' = rules
           ELSE /\ err' = ""
                /\ Len(rules') = Len(rules)
                     + Len(Layers[Least(Named(pair[1]))].Packages)
                       * Len(Layers[Least(Named(pair[2]))].Packages)
                /\ SubSeq(rules', 1, Len(rules)) = rules
                /\ \A i \in Len(rules) + 1 .. Len(rules') : rules'[i].AllowedImports]_vars

\* C24 witness: after a dependency constraint, AddRule has appended the two
\* allow rules of a layer with one pattern and a layer with two
C24_Witness ==
  /\ LayerDecls = DomainSharedCore
  /\ err = ""
  /\ Len(rules) = 3
  /\ ~rules[1].AllowedImports
  /\ rules[2].AllowedImports
  /\ rules[3].AllowedImports
  /\ rules[2].SourcePattern = SuffixPattern(pDomain)
  /\ rules[2].TargetPattern = SuffixPattern(pHandlersEnd)
  /\ rules[3].TargetPattern = SuffixPattern(pUtils)

\* C27: after a successful AddRule, whatever the order in which the packages
\* are visited, Check returns no violation it did not return before the call
\* (each violation at most as often as before), and a second AddRule for the
\* same pair of names leaves the result of Check as it is after the first
C27_AddRuleNeverCreatesViolation ==
  [][\A pair \in AddRuleArgs :
       (AddRuleCall(pair[1], pair[2]) /\ err' = "") =>
         \A order \in Orders(DOMAIN Packages) :
           LET before == Check(Layers, rules, Packages, order)
               after == Check(Layers, rules', Packages, order)
               twice == AddRule(Layers, rules', pair[1], pair[2]).rules
           IN  /\ \A n \in DOMAIN after : Count(after, after[n]) <= Count(before, after[n])
               /\ Check(Layers, twice, Packages, order) = after]_vars

\* C27 witness: the same pair has been declared twice, and the check made
\* afterwards does not report the cross-layer import the pair covers
C27_Witness ==
  /\ Len(rules) = 2
  /\ rules[1] = rules[2]
  /\ rules = AddRule(Layers, AddRule(Layers, <<>>, "Domain", "Utils").rules, "Domain", "Utils").rules
  /\ runs # <<>>
  /\ sDomain \in DOMAIN Packages
  /\ \E i \in DOMAIN Packages[sDomain].Imports :
       /\ Resolved(Packages[sDomain].Imports[i]) \notin {0, Owner(sDomain)}
       /\ Qualified(Packages[sDomain].Imports[i])
       /\ Reported(runs[1], sDomain, Packages[sDomain].Imports[i]) = {}

\* C28: after AddDependencyConstraint with a disallow rule, whatever the order
\* in which the packages are visited, Check returns what it returned before
\* the call
C28_DisallowConstraintChangesNothing ==
  [][\A r \in ConstraintRules :
       (AddDependencyConstraintCall(r) /\ ~r.rule[1].AllowedImports) =>
         \A order \in Orders(DOMAIN Packages) :
           Check(Layers, rules', Packages, order) = Check(Layers, rules, Packages, order)]_vars

\* C28 witness: an allow rule and then a disallow rule match the same
\* cross-layer import of a package, and the check made afterwards does not
\* report the import
C28_Witness ==
  /\ runs # <<>>
  /\ \E p \in DOMAIN Packages : \E i \in DOMAIN Packages[p].Imports :
       /\ Qualified(Packages[p].Imports[i])
       /\ Owner(p) # 0
       /\ Resolved(Packages[p].Imports[i]) \notin {0, Owner(p)}
       /\ \E a, d \in DOMAIN rules :
            /\ a < d
            /\ rules[a].AllowedImports
            /\ ~rules[d].AllowedImports
            /\ MatchString(rules[a].SourcePattern, p)
            /\ MatchString(rules[d].SourcePattern, p)
            /\ MatchString(rules[a].TargetPattern, Packages[p].Imports[i])
            /\ MatchString(rules[d].TargetPattern, Packages[p].Imports[i])
       /\ Reported(runs[1], p, Packages[p].Imports[i]) = {}

\* an allow rule added with AddDependencyConstraint does change the result
C28_AllowConstraintPermits ==
  /\ runs # <<>>
  /\ Len(rules) = 1
  /\ rules = NewDependencyRule(sHandlers, sUtils, TRUE).rule
  /\ \E p \in DOMAIN Packages : \E i \in DOMAIN Packages[p].Imports :
       /\ Qualified(Packages[p].Imports[i])
       /\ Owner(p) # 0
       /\ Resolved(Packages[p].Imports[i]) \notin {0, Owner(p)}
       /\ Reported(runs[1], p, Packages[p].Imports[i]) = {}

\* every rule of la.rules is one AddRule makes for a pair of layer patterns
OnlyAddRuleRules ==
  \A i \in DOMAIN rules :
    \E a, b \in DOMAIN Layers :
      \E x \in DOMAIN Layers[a].Packages, y \in DOMAIN Layers[b].Packages :
        <<rules[i]>> = NewDependencyRule(SuffixPattern(Layers[a].Packages[x]),
                                         SuffixPattern(Layers[b].Packages[y]), TRUE).rule

\* C30 (as claimed): when la.rules holds only rules made by AddRule, an import
\* with a dot or a slash of a package owned by layer S that is resolved to
\* another layer T goes unreported only if AddRule has succeeded for the names
\* of S and T
C30_OnlyDeclaredPairPermits ==
  OnlyAddRuleRules =>
    \A k \in DOMAIN runs : \A p \in DOMAIN Packages : \A i \in DOMAIN Packages[p].Imports :
      (/\ Qualified(Packages[p].Imports[i])
       /\ Owner(p) # 0
       /\ Resolved(Packages[p].Imports[i]) \notin {0, Owner(p)}
       /\ Reported(runs[k], p, Packages[p].Imports[i]) = {})
        => PairAllowed(Layers[Owner(p)].Name, Layers[Resolved(Packages[p].Imports[i])].Name)

-----------------------------------------------------------------------------
(* SpecContains: Layer.Contains applied to a layer declared for a package  *)
(* name, with the bare name or the anchored name as its pattern            *)

sMy == <<"m", "y">>
sSub == <<"s", "u", "b">>
PackageNames == {sDomain, sUtils, sApp}

\* the paths asked about: a package name, nested paths under it, and a name
\* that only ends with it
ContainsPaths ==
  UNION {{P, Join2(P, sSub), Join2(P, sEntities), sMy \o P} : P \in PackageNames}

\* Layer.Contains(pkgPath) called on the layer of args
ContainsCall ==
  /\ ret = <<>>
  /\ ret' = <<Contains(args.layer, args.pkgPath)>>
  /\ UNCHANGED <<importRoot, Packages, Layers, laArch, rules, dependencyRules,
                 interfaceRules, parameterRules, runs, err, args>>

InitContains ==
  /\ importRoot = <<>>
  /\ Packages = <<>>
  /\ Layers = <<>>
  /\ laArch = FALSE
  /\ rules = <<>>
  /\ dependencyRules = <<>>
  /\ interfaceRules = <<>>
  /\ parameterRules = <<>>
  /\ runs = <<>>
  /\ err = ""
  /\ \E P \in PackageNames, pattern \in {<<>>, <<"^">>}, pkgPath \in ContainsPaths :
       args = [ P |-> P,
                layer |-> NewLayer("L", <<pattern \o P \o (IF pattern = <<>> THEN <<>> ELSE <<"$">>)>>),
                pkgPath |-> pkgPath ]
  /\ ret = <<>>

NextContains == ContainsCall

SpecContains == InitContains /\ [][NextContains]_vars

\* C6 (as claimed): a layer declared for the package name P, with the pattern
\* P or ^P$, contains the path P and every nested path P/sub, and does not
\* contain the path myP
C6_ContainsNestedNotSuffix ==
  ret # <<>> =>
    /\ (args.pkgPath = args.P => ret[1])
    /\ (HasPrefix(args.pkgPath, args.P \o Slash) => ret[1])
    /\ (args.pkgPath = sMy \o args.P => ~ret[1])

-----------------------------------------------------------------------------
(* Interface Implementation Engine (pkg/arctest/interfaces.go) *)

\* mutant: the presence of a return value is not compared
methodSignaturesMatchIgnoringReturn(m1, m2) ==
  /\ m1.Name = m2.Name
  /\ Len(m1.Params) = Len(m2.Params)

\* methodSignaturesMatch
methodSignaturesMatch(m1, m2) ==
  IF m1.Name # m2.Name THEN FALSE
  ELSE IF Len(m1.Params) # Len(m2.Params) THEN FALSE
  ELSE IF (m1.ReturnType = "") # (m2.ReturnType = "") THEN FALSE
  ELSE TRUE

\* CheckInterfaceImplementation(s, i): the inner loop sets `found`, the outer
\* loop returns false at the first method of i that is not found
CheckInterfaceImplementation(s, i) ==
  LET found(iMethod) ==
        \E k \in DOMAIN s.Methods :
          /\ s.Methods[k].Name = iMethod.Name
          /\ methodSignaturesMatch(s.Methods[k], iMethod)
      ok[k \in 0 .. Len(i.Methods)] ==
        IF k = 0 THEN TRUE ELSE ok[k - 1] /\ found(i.Methods[k])
  IN  IF Len(i.Methods) = 0 THEN TRUE ELSE ok[Len(i.Methods)]

\* NewInterfaceImplementationRule: the rule, or the error of the pattern that
\* does not compile
NewInterfaceImplementationRule(structPattern, interfacePattern) ==
  IF ~Compiles(structPattern) THEN [rule |-> <<>>, err |-> "invalid struct pattern"]
  ELSE IF ~Compiles(interfacePattern) THEN [rule |-> <<>>, err |-> "invalid interface pattern"]
  ELSE [ rule |-> <<[StructPattern |-> structPattern, InterfacePattern |-> interfacePattern]>>,
         err |-> "" ]

\* the message of an interface violation, as the arguments formatted into it
InterfaceViolation(s, rule) ==
  [ kind |-> "interface", struct |-> s.Name, pkg |-> s.Pkg,
    pattern |-> rule.InterfacePattern ]

RECURSIVE MapOrdersOver(_, _, _)
\* one iteration order for the map `field` of every package of D
MapOrdersOver(packages, field, D) ==
  IF D = {} THEN {<<>>}
  ELSE LET p == CHOOSE p \in D : TRUE
       IN  {g @@ (p :> o) : g \in MapOrdersOver(packages, field, D \ {p}),
                            o \in Orders(DOMAIN packages[p][field])}

\* the iteration orders `range pkg.Structs` (or pkg.Interfaces) can take
MapOrders(packages, field) == MapOrdersOver(packages, field, DOMAIN packages)

\* the types of the map `field` whose name matches pattern, as the loops over
\* a.Packages and over the map of each package collect them
Matching(packages, order, field, fieldOrder, pattern) ==
  LET ForPackage(p) ==
        LET F(n) == IF MatchString(pattern, n) THEN <<packages[p][field][n]>> ELSE <<>>
        IN  ConcatMap(F, fieldOrder[p])
  IN  ConcatMap(ForPackage, order)

\* mutant: a struct is reported even when no interface matched
ReportStructEvenWithoutInterfaces(s, matchingInterfaces) ==
  ~\E k \in DOMAIN matchingInterfaces : CheckInterfaceImplementation(s, matchingInterfaces[k])

\* CheckStructImplementsInterfaces: the condition under which a matching struct is reported
ReportStruct(s, matchingInterfaces) ==
  LET implementsAny ==
        \E k \in DOMAIN matchingInterfaces :
          CheckInterfaceImplementation(s, matchingInterfaces[k])
  IN  ~implementsAny /\ Len(matchingInterfaces) > 0

\* Architecture.CheckStructImplementsInterfaces(rules)
CheckStructImplementsInterfaces(packages, order, structOrder, interfaceOrder, ruleList) ==
  LET ForRule(rule) ==
        LET matchingStructs ==
              Matching(packages, order, "Structs", structOrder, rule.StructPattern)
            matchingInterfaces ==
              Matching(packages, order, "Interfaces", interfaceOrder, rule.InterfacePattern)
            F(s) == IF ReportStruct(s, matchingInterfaces)
                      THEN <<InterfaceViolation(s, rule)>> ELSE <<>>
        IN  ConcatMap(F, matchingStructs)
  IN  ConcatMap(ForRule, ruleList)

-----------------------------------------------------------------------------
(* SpecImplements: CheckInterfaceImplementation applied to a struct and an *)
(* interface whose methods are drawn from small sets                       *)

MaxParams == 1

\* the methods named FindByID or Save with up to MaxParams parameters, each
\* parameter being param
MethodsWith(param) ==
  { [Name |-> n, Params |-> [k \in 1 .. c |-> param], ReturnType |-> r] :
      n \in {sFindByID, sSave}, c \in 0 .. MaxParams, r \in {"", "has_return"} }

\* the method lists of a type: no two methods share a name
MethodLists(param) ==
  {<<>>} \cup {<<m>> : m \in MethodsWith(param)}
         \cup {<<pair[1], pair[2]>> :
                 pair \in {q \in MethodsWith(param) \X MethodsWith(param) :
                             q[1].Name # q[2].Name}}

ParamId == [Name |-> "id", Type |-> sString]
ParamUser == [Name |-> "user", Type |-> <<"*">> \o sUser]

CheckInterfaceImplementationCall ==
  /\ ret = <<>>
  /\ ret' = <<CheckInterfaceImplementation(args.s, args.i)>>
  /\ UNCHANGED <<importRoot, Packages, Layers, laArch, rules, dependencyRules,
                 interfaceRules, parameterRules, runs, err, args>>

InitImplements ==
  /\ importRoot = <<>>
  /\ Packages = <<>>
  /\ Layers = <<>>
  /\ laArch = FALSE
  /\ rules = <<>>
  /\ dependencyRules = <<>>
  /\ interfaceRules = <<>>
  /\ parameterRules = <<>>
  /\ runs = <<>>
  /\ err = ""
  /\ \E sm \in MethodLists(ParamId), param \in {ParamId, ParamUser} :
       \E im \in MethodLists(param) :
         args = [ s |-> [Name |-> sUserRepository, Methods |-> sm, Pkg |-> sInfrastructure],
                  i |-> [Name |-> sUserRepositoryInterface, Methods |-> im, Pkg |-> sDomain] ]
  /\ ret = <<>>

NextImplements == CheckInterfaceImplementationCall

SpecImplements == InitImplements /\ [][NextImplements]_vars

\* what the claims compare of a method: name, parameter count, return-presence
Signature(m) == <<m.Name, Len(m.Params), m.ReturnType # "">>
Signatures(t) == {Signature(t.Methods[k]) : k \in DOMAIN t.Methods}

-----------------------------------------------------------------------------
(* SpecIface: a caller parses packages, makes interface implementation     *)
(* rules and checks them                                                   *)

pRepository == <<".", "*", "R", "e", "p", "o", "s", "i", "t", "o", "r", "y", "$">>
pRepositoryInterface == <<".", "*", "R", "e", "p", "o", "s", "i", "t", "o", "r", "y", "I", "n", "t", "e", "r", "f", "a", "c", "e", "$">>
pLoggerEnd == <<"L", "o", "g", "g", "e", "r", "$">>
sHandler == <<"H", "a", "n", "d", "l", "e", "r">>
pService == <<".", "*", "S", "e", "r", "v", "i", "c", "e", ".", "*">>
pUpdate == <<"U", "p", "d", "a", "t", "e", ".", "*">>
pAnyLogger == <<".", "*", "L", "o", "g", "g", "e", "r">>

\* the (structPattern, interfacePattern) pairs the caller makes rules of
InterfaceRulePatterns ==
  { <<pRepository, pRepositoryInterface>>, <<sUser, pRepositoryInterface>>,
    <<sLogger, pLoggerEnd>>, <<sUser, sHandler>> }

\* Architecture.StructsImplementInterfaces(structPattern, interfacePattern); the
\* caller keeps the rule for the check
StructsImplementInterfaces(structPattern, interfacePattern) ==
  LET r == NewInterfaceImplementationRule(structPattern, interfacePattern)
  IN  /\ Len(interfaceRules) < MaxRules
      /\ interfaceRules' = interfaceRules \o r.rule
      /\ runs' = IF r.err = "" THEN <<>> ELSE runs
      /\ err' = r.err
      /\ UNCHANGED <<importRoot, Packages, Layers, laArch, rules, dependencyRules,
                     parameterRules, args, ret>>

\* Architecture.CheckStructImplementsInterfaces(rules) with the rules kept
CheckStructImplementsInterfacesCall(order, structOrder, interfaceOrder) ==
  /\ runs' = <<CheckStructImplementsInterfaces(Packages, order, structOrder,
                                               interfaceOrder, interfaceRules)>>
  /\ err' = ""
  /\ UNCHANGED <<importRoot, Packages, Layers, laArch, rules, dependencyRules,
                 interfaceRules, parameterRules, args, ret>>

InitIface ==
  /\ importRoot = sModule \o Slash
  /\ Packages = <<>>
  /\ Layers = <<>>
  /\ laArch = FALSE
  /\ rules = <<>>
  /\ dependencyRules = <<>>
  /\ interfaceRules = <<>>
  /\ parameterRules = <<>>
  /\ runs = <<>>
  /\ err = ""
  /\ args = <<>>
  /\ ret = <<>>

NextIface ==
  \/ \E p \in {sDomain, sUtils, sInfrastructure} : ParsePackages(p)
  \/ \E r \in InterfaceRulePatterns : StructsImplementInterfaces(r[1], r[2])
  \/ \E order \in Orders(DOMAIN Packages) :
       \E structOrder \in MapOrders(Packages, "Structs") :
         \E interfaceOrder \in MapOrders(Packages, "Interfaces") :
           CheckStructImplementsInterfacesCall(order, structOrder, interfaceOrder)

SpecIface == InitIface /\ [][NextIface]_vars

\* the parsed structs (or interfaces) whose name matches pattern
TypesMatching(field, pattern) ==
  UNION { {Packages[p][field][n] : n \in {m \in DOMAIN Packages[p][field] : MatchString(pattern, m)}} :
          p \in DOMAIN Packages }

\* the struct s satisfies the interface i
Satisfies(s, i) == Signatures(i) \subseteq Signatures(s)

\* the (rule, struct) pairs C3 expects a violation for
Unimplemented ==
  { <<j, s>> \in UNION { {<<k, x>> : x \in TypesMatching("Structs", interfaceRules[k].StructPattern)} :
                         k \in DOMAIN interfaceRules } :
      LET matched == TypesMatching("Interfaces", interfaceRules[j].InterfacePattern)
      IN  matched # {} /\ \A i \in matched : ~Satisfies(s, i) }

\* C3: a check reports exactly one violation for every rule and every struct
\* matching its structPattern that satisfies none of the interfaces matching
\* its interfacePattern, when there is such an interface, and nothing else
C3_OneViolationPerUnimplementedStruct ==
  runs # <<>> =>
    LET hits == Unimplemented
        message == [h \in hits |-> InterfaceViolation(h[2], interfaceRules[h[1]])]
    IN  /\ Len(runs[1]) = Cardinality(hits)
        /\ \A h \in hits :
             Count(runs[1], message[h]) = Cardinality({g \in hits : message[g] = message[h]})

C3_Witness ==
  /\ runs # <<>>
  /\ Len(interfaceRules) = 2
  /\ interfaceRules[1] = NewInterfaceImplementationRule(sUser, pRepositoryInterface).rule[1]
  /\ interfaceRules[2] = NewInterfaceImplementationRule(sUser, sHandler).rule[1]
  /\ DOMAIN Packages = {sDomain, Join2(sDomain, sEntities), sInfrastructure}
  /\ Len(runs[1]) = 2
  /\ \A n \in DOMAIN runs[1] : runs[1][n].struct \in {sUser, sUserServiceWithLogger}

-----------------------------------------------------------------------------
(* Parameter Rule Engine (pkg/arctest/parameters.go) *)

\* isPrimitiveType
isPrimitiveType(typeName) ==
  typeName \in
  { <<"b", "o", "o", "l">>,
    <<"i", "n", "t">>,
    <<"i", "n", "t", "8">>,
    <<"i", "n", "t", "1", "6">>,
    <<"i", "n", "t", "3", "2">>,
    <<"i", "n", "t", "6", "4">>,
    <<"u", "i", "n", "t">>,
    <<"u", "i", "n", "t", "8">>,
    <<"u", "i", "n", "t", "1", "6">>,
    <<"u", "i", "n", "t", "3", "2">>,
    <<"u", "i", "n", "t", "6", "4">>,
    <<"u", "i", "n", "t", "p", "t", "r">>,
    <<"f", "l", "o", "a", "t", "3", "2">>,
    <<"f", "l", "o", "a", "t", "6", "4">>,
    <<"c", "o", "m", "p", "l", "e", "x", "6", "4">>,
    <<"c", "o", "m", "p", "l", "e", "x", "1", "2", "8">>,
    <<"s", "t", "r", "i", "n", "g">>,
    <<"b", "y", "t", "e">>,
    <<"r", "u", "n", "e">>,
    <<"e", "r", "r", "o", "r">> }

\* NewParameterRule: the rule, or the error of the pattern that does not compile
NewParameterRule(structPattern, methodPattern, parameterTypePattern, shouldUseInterface) ==
  IF ~Compiles(structPattern) THEN [rule |-> <<>>, err |-> "invalid struct pattern"]
  ELSE IF ~Compiles(methodPattern) THEN [rule |-> <<>>, err |-> "invalid method pattern"]
  ELSE IF ~Compiles(parameterTypePattern)
    THEN [rule |-> <<>>, err |-> "invalid parameter type pattern"]
  ELSE [ rule |-> << [ StructPattern |-> structPattern,
                       MethodPattern |-> methodPattern,
                       ParameterTypePattern |-> parameterTypePattern,
                       ShouldUseInterface |-> shouldUseInterface ] >>,
         err |-> "" ]

\* the lookup table CheckMethodParameters builds of the map `field` of every
\* package: each name, bare and prefixed with the package name
TypeTable(packages, field) ==
  UNION { UNION { {n, packages[p].Name \o <<".">> \o n} : n \in DOMAIN packages[p][field] } :
          p \in DOMAIN packages }

\* mutant: the leading "*" is kept
ParamOutcomeKeepingPointer(rule, interfaces, structs, type) ==
  IF type = <<>> \/ isPrimitiveType(type) THEN "skipped"
  ELSE IF ~MatchString(rule.ParameterTypePattern, type) THEN "skipped"
  ELSE IF type \notin interfaces /\ type \notin structs THEN "skipped"
  ELSE IF rule.ShouldUseInterface /\ type \notin interfaces THEN "uses struct"
  ELSE IF ~rule.ShouldUseInterface /\ type \notin structs THEN "uses interface"
  ELSE "no violation"

\* mutant: a struct parameter is reported whatever ShouldUseInterface is
ParamOutcomeIgnoringFlag(rule, interfaces, structs, type) ==
  LET paramType == TrimPrefix(type, "*")
  IN  IF type = <<>> \/ isPrimitiveType(type) THEN "skipped"
      ELSE IF ~MatchString(rule.ParameterTypePattern, paramType) THEN "skipped"
      ELSE IF paramType \notin interfaces /\ paramType \notin structs THEN "skipped"
      ELSE IF paramType \notin interfaces THEN "uses struct"
      ELSE IF ~rule.ShouldUseInterface /\ paramType \notin structs THEN "uses interface"
      ELSE "no violation"

\* mutant: a type that names no declared struct or interface is taken for a struct
ParamOutcomeReportingUnknown(rule, interfaces, structs, type) ==
  LET paramType == TrimPrefix(type, "*")
      isInterface == paramType \in interfaces
  IN  IF type = <<>> \/ isPrimitiveType(type) THEN "skipped"
      ELSE IF ~MatchString(rule.ParameterTypePattern, paramType) THEN "skipped"
      ELSE IF rule.ShouldUseInterface /\ ~isInterface THEN "uses struct"
      ELSE IF ~rule.ShouldUseInterface /\ paramType \notin structs /\ isInterface
        THEN "uses interface"
      ELSE "no violation"

\* CheckMethodParameters: what the body of the loop over m.Params does with a
\* parameter of the recorded type `type`
ParamOutcome(rule, interfaces, structs, type) ==
  LET paramType == TrimPrefix(type, "*")
      isInterface == paramType \in interfaces
      isStruct == paramType \in structs
  IN  IF type = <<>> \/ isPrimitiveType(type) THEN "skipped"
      ELSE IF ~MatchString(rule.ParameterTypePattern, paramType) THEN "skipped"
      ELSE IF ~isInterface /\ ~isStruct THEN "skipped"
      ELSE IF rule.ShouldUseInterface /\ ~isInterface THEN "uses struct"
      ELSE IF ~rule.ShouldUseInterface /\ ~isStruct THEN "uses interface"
      ELSE "no violation"

\* the message of a parameter violation, as the arguments formatted into it
ParameterViolation(m, s, paramType, outcome) ==
  [ kind |-> "parameter", method |-> m.Name, struct |-> s.Name, pkg |-> s.Pkg,
    type |-> paramType, uses |-> outcome ]

\* Architecture.CheckMethodParameters(rules)
CheckMethodParameters(packages, order, structOrder, ruleList) ==
  LET interfaces == TypeTable(packages, "Interfaces")
      structs == TypeTable(packages, "Structs")
      ForRule(rule) ==
        LET ForStruct(s) ==
              LET ForMethod(m) ==
                    LET ForParam(p) ==
                          LET outcome == ParamOutcome(rule, interfaces, structs, p.Type)
                          IN  IF outcome \in {"uses struct", "uses interface"}
                                THEN <<ParameterViolation(m, s, TrimPrefix(p.Type, "*"), outcome)>>
                                ELSE <<>>
                    IN  IF MatchString(rule.MethodPattern, m.Name)
                          THEN ConcatMap(ForParam, m.Params) ELSE <<>>
              IN  IF MatchString(rule.StructPattern, s.Name)
                    THEN ConcatMap(ForMethod, s.Methods) ELSE <<>>
            ForPackage(p) ==
              LET F(n) == ForStruct(packages[p].Structs[n])
              IN  ConcatMap(F, structOrder[p])
        IN  ConcatMap(ForPackage, order)
  IN  ConcatMap(ForRule, ruleList)

-----------------------------------------------------------------------------
(* SpecParam: a caller parses packages, among them a service whose method  *)
(* takes a parameter of a drawn type T and one of type pointer-to-T, makes *)
(* parameter rules and checks them                                         *)

\* the types T drawn for the parameters of the service
ParamTypes ==
  { Ident(sString), Ident(sUser), Ident(sLogger), Selector(sUtils, sLogger),
    Selector(sDomain, sLogger), Star(Selector(sUtils, sLogger)), OtherType }

\* the rules the caller makes
pAnyType == <<".", "*">>
ParameterRuleArgs ==
  { <<pService, pUpdate, pAnyLogger, TRUE>>, <<pService, pUpdate, pAnyLogger, FALSE>>,
    <<pService, pUpdate, pAnyType, TRUE>> }

\* Architecture.MethodsShouldUseInterfaceParameters / MethodsShouldUseStructParameters;
\* the caller keeps the rule for the check
MethodsShouldUse(structPattern, methodPattern, parameterTypePattern, shouldUseInterface) ==
  LET r == NewParameterRule(structPattern, methodPattern, parameterTypePattern,
                            shouldUseInterface)
  IN  /\ Len(parameterRules) < MaxRules
      /\ parameterRules' = parameterRules \o r.rule
      /\ runs' = IF r.err = "" THEN <<>> ELSE runs
      /\ err' = r.err
      /\ UNCHANGED <<importRoot, Packages, Layers, laArch, rules, dependencyRules,
                     interfaceRules, args, ret>>

\* Architecture.CheckMethodParameters(rules) with the rules kept
CheckMethodParametersCall(order, structOrder) ==
  /\ runs' = <<CheckMethodParameters(Packages, order, structOrder, parameterRules)>>
  /\ err' = ""
  /\ UNCHANGED <<importRoot, Packages, Layers, laArch, rules, dependencyRules,
                 interfaceRules, parameterRules, args, ret>>

InitParam ==
  /\ importRoot = sModule \o Slash
  /\ Packages = <<>>
  /\ Layers = <<>>
  /\ laArch = FALSE
  /\ rules = <<>>
  /\ dependencyRules = <<>>
  /\ interfaceRules = <<>>
  /\ parameterRules = <<>>
  /\ runs = <<>>
  /\ err = ""
  /\ args \in ParamTypes
  /\ ret = <<>>

NextParam ==
  \/ \E p \in {sDomain, sUtils, sService} : ParsePackages(p)
  \/ \E r \in ParameterRuleArgs : MethodsShouldUse(r[1], r[2], r[3], r[4])
  \/ \E order \in Orders(DOMAIN Packages) :
       \E structOrder \in MapOrders(Packages, "Structs") :
         CheckMethodParametersCall(order, structOrder)

SpecParam == InitParam /\ [][NextParam]_vars

\* a recorded parameter type without its leading "*"
Normalized(type) == IF type # <<>> /\ type[1] = "*" THEN Tail(type) ELSE type

\* the names under which a struct (or an interface) of a parsed package is known
Declared(field) ==
  UNION { {n \in DOMAIN Packages[p][field] : TRUE} \cup
          {Packages[p].Name \o <<".">> \o n : n \in DOMAIN Packages[p][field]} :
          p \in DOMAIN Packages }

\* the parameters the rules look at: rule j, struct s, its method and
\* parameter numbers
RuleParams ==
  { q \in UNION { UNION { UNION { UNION { {<<j, s, a, b>> : b \in DOMAIN s.Methods[a].Params} :
                                         a \in DOMAIN s.Methods } :
                                 s \in {Packages[p].Structs[n] : n \in DOMAIN Packages[p].Structs} } :
                         p \in DOMAIN Packages } :
                 j \in DOMAIN parameterRules } :
      /\ MatchString(parameterRules[q[1]].StructPattern, q[2].Name)
      /\ MatchString(parameterRules[q[1]].MethodPattern, q[2].Methods[q[3]].Name)
      /\ MatchString(parameterRules[q[1]].ParameterTypePattern,
                     Normalized(q[2].Methods[q[3]].Params[q[4]].Type)) }

\* of those, the parameters that name a declared struct and no declared interface
StructParams ==
  { q \in RuleParams :
      LET type == Normalized(q[2].Methods[q[3]].Params[q[4]].Type)
      IN  type \in Declared("Structs") \ Declared("Interfaces") }

\* C4: a check reports exactly one "uses struct" violation for every such
\* parameter and every rule demanding interfaces, and a rule built with
\* shouldUseInterface=false reports no violation for such a parameter
C4_OneViolationPerStructParameter ==
  runs # <<>> =>
    LET hits == {q \in StructParams : parameterRules[q[1]].ShouldUseInterface}
        message == [q \in hits |->
                      ParameterViolation(q[2].Methods[q[3]], q[2],
                        Normalized(q[2].Methods[q[3]].Params[q[4]].Type), "uses struct")]
        reported == {n \in DOMAIN runs[1] : runs[1][n].uses = "uses struct"}
    IN  /\ Cardinality(reported) = Cardinality(hits)
        /\ \A q \in hits :
             Count(runs[1], message[q]) = Cardinality({g \in hits : message[g] = message[q]})
        /\ \A n \in DOMAIN runs[1] \ reported :
             runs[1][n].type \notin Declared("Structs") \ Declared("Interfaces")

C4_Witness ==
  /\ runs # <<>>
  /\ Len(parameterRules) = 2
  /\ parameterRules[1].ShouldUseInterface /\ ~parameterRules[2].ShouldUseInterface
  /\ parameterRules[1].ParameterTypePattern = pAnyLogger
  /\ \E n \in DOMAIN runs[1] :
       /\ runs[1][n].method = sUpdateUserWithExternalLogger
       /\ runs[1][n].type = sUtils \o <<".">> \o sLogger
       /\ runs[1][n].uses = "uses struct"
       /\ Count(runs[1], runs[1][n]) = 1

\* a parameter of this recorded type text is never to be reported: the text
\* is empty, is a built-in scalar name, or names no declared struct or interface
Unreportable(type) ==
  \/ type = <<>>
  \/ isPrimitiveType(type)
  \/ Normalized(type) \notin Declared("Structs") \cup Declared("Interfaces")

\* the structs of the parsed packages
ParsedStructs ==
  UNION {{Packages[p].Structs[n] : n \in DOMAIN Packages[p].Structs} : p \in DOMAIN Packages}

\* C25: a check reports nothing for a parameter whose recorded type text is
\* empty, a built-in scalar name, or the name of no declared struct or
\* interface: the violations about a method that name a type are at most one
\* per rule for each other parameter of the method recorded with that type
C25_UnknownTypeNeverReported ==
  runs # <<>> =>
    /\ \A n \in DOMAIN runs[1] : ~Unreportable(runs[1][n].type)
    /\ \A s \in ParsedStructs : \A a \in DOMAIN s.Methods :
         \A b \in DOMAIN s.Methods[a].Params :
           LET type == Normalized(s.Methods[a].Params[b].Type)
               about == {n \in DOMAIN runs[1] :
                           /\ runs[1][n].struct = s.Name /\ runs[1][n].pkg = s.Pkg
                           /\ runs[1][n].method = s.Methods[a].Name
                           /\ runs[1][n].type = type}
               reportable == {c \in DOMAIN s.Methods[a].Params :
                                /\ Normalized(s.Methods[a].Params[c].Type) = type
                                /\ ~Unreportable(s.Methods[a].Params[c].Type)}
           IN  Cardinality(about) <= Len(parameterRules) * Cardinality(reportable)

\* a rule whose parameter type pattern matches every type text was checked on
\* the service's method, whose parameters are recorded as string and *string,
\* and on a method with a reportable parameter: only the latter is reported
C25_Witness ==
  /\ runs # <<>>
  /\ \E j \in DOMAIN parameterRules : parameterRules[j].ParameterTypePattern = pAnyType
  /\ sService \in DOMAIN Packages
  /\ Packages[sService].Structs[sProbeService].Methods[1].Params[1].Type = sString
  /\ Packages[sService].Structs[sProbeService].Methods[1].Params[2].Type = <<"*">> \o sString
  /\ \A n \in DOMAIN runs[1] : runs[1][n].method # sUpdateProbe
  /\ runs[1] # <<>>

\* the outcomes of the service's two parameters under rule j, from the types
\* the extraction recorded for them
ServiceOutcomes(j) ==
  LET params == Packages[sService].Structs[sProbeService].Methods[1].Params
  IN  [k \in DOMAIN params |->
         ParamOutcome(parameterRules[j], TypeTable(Packages, "Interfaces"),
                      TypeTable(Packages, "Structs"), params[k].Type)]

\* the violations of a check that are about the service's method
AboutService(run) == {n \in DOMAIN run : run[n].method = sUpdateProbe}

\* C5 (as claimed): whatever type text T the extraction records, the parameter
\* of type pointer-to-T gets the outcome of the parameter of type T under
\* every rule, so a check reports both parameters or neither
C5_AsClaimed ==
  sService \in DOMAIN Packages =>
    /\ \A j \in DOMAIN parameterRules : ServiceOutcomes(j)[1] = ServiceOutcomes(j)[2]
    /\ runs # <<>> => Cardinality(AboutService(runs[1])) % 2 = 0

\* C5 (amended): when T is not itself a pointer type, the parameter of type
\* pointer-to-T gets the outcome of the parameter of type T under every rule,
\* so a check reports both parameters or neither
C5_PointerSameOutcome ==
  (sService \in DOMAIN Packages /\ args.stars = 0) =>
    /\ \A j \in DOMAIN parameterRules : ServiceOutcomes(j)[1] = ServiceOutcomes(j)[2]
    /\ runs # <<>> => Cardinality(AboutService(runs[1])) % 2 = 0

C5_Witness ==
  /\ sService \in DOMAIN Packages
  /\ args = Selector(sUtils, sLogger)
  /\ Len(parameterRules) = 1
  /\ ServiceOutcomes(1) = <<"uses struct", "uses struct">>
  /\ runs # <<>>
  /\ Cardinality(AboutService(runs[1])) = 2

\* C20: when the simple name Logger is declared as an interface in one parsed
\* package and as a struct in another, a check classifies a parameter of that
\* type as interface: every rule demanding struct parameters that looks at
\* such a parameter reports it as using an interface, and no rule demanding
\* interface parameters reports it
C20_AmbiguousNameIsInterface ==
  (runs # <<>> /\ sLogger \in Declared("Interfaces") \cap Declared("Structs")) =>
    /\ \A n \in DOMAIN runs[1] :
         runs[1][n].type = sLogger => runs[1][n].uses = "uses interface"
    /\ \A q \in RuleParams :
         ( /\ Normalized(q[2].Methods[q[3]].Params[q[4]].Type) = sLogger
           /\ ~parameterRules[q[1]].ShouldUseInterface )
         => \E n \in DOMAIN runs[1] :
              runs[1][n] = ParameterViolation(q[2].Methods[q[3]], q[2], sLogger,
                                              "uses interface")

-----------------------------------------------------------------------------
(* Layer-scoped rule constructors (Layer methods of the dependency engine) *)

\* the error every layer-scoped constructor returns for a layer with a nil arch
NotBound == "layer is not associated with an architecture"

\* Layer.DoesNotDependOnLayer(targetLayer); targetLayer is <<>> for nil, else <<layer>>
LayerDoesNotDependOnLayer(l, targetLayer) ==
  IF ~l.arch THEN [rule |-> <<>>, err |-> NotBound]
  ELSE IF targetLayer = <<>> THEN [rule |-> <<>>, err |-> "target layer cannot be nil"]
  ELSE LET r == NewDependencyRule(
                  Join([i \in DOMAIN l.Packages |-> SuffixPattern(l.Packages[i])], <<"|">>),
                  Join([i \in DOMAIN targetLayer[1].Packages |->
                          SuffixPattern(targetLayer[1].Packages[i])], <<"|">>),
                  FALSE)
       IN  IF r.err # "" THEN [rule |-> <<>>, err |-> "failed to create dependency rule"]
           ELSE r

\* Layer.getScopedPattern(pattern)
getScopedPattern(l, pattern) ==
  IF HasPrefix(pattern, <<"^">>) THEN pattern
  ELSE <<"(">> \o
       Join([i \in DOMAIN l.Packages |->
               <<"^">> \o TrimSuffix(TrimPrefix(l.Packages[i], "^"), "$")
                       \o <<"\\", ".">> \o pattern],
            <<"|">>) \o
       <<")">>

\* Layer.StructsImplementInterfaces(structPattern, interfacePattern)
LayerStructsImplementInterfaces(l, structPattern, interfacePattern) ==
  IF ~l.arch THEN [rule |-> <<>>, err |-> NotBound]
  ELSE NewInterfaceImplementationRule(getScopedPattern(l, structPattern), interfacePattern)

\* variant: the rule is built whether or not the layer has an architecture
LayerMethodsShouldUseUnbound(l, structPattern, methodPattern, parameterTypePattern, shouldUseInterface) ==
  NewParameterRule(getScopedPattern(l, structPattern), methodPattern,
                   parameterTypePattern, shouldUseInterface)

\* Layer.MethodsShouldUseInterfaceParameters (shouldUseInterface) and
\* Layer.MethodsShouldUseStructParameters (~shouldUseInterface)
LayerMethodsShouldUse(l, structPattern, methodPattern, parameterTypePattern, shouldUseInterface) ==
  IF ~l.arch THEN [rule |-> <<>>, err |-> NotBound]
  ELSE NewParameterRule(getScopedPattern(l, structPattern), methodPattern,
                        parameterTypePattern, shouldUseInterface)

-----------------------------------------------------------------------------
(* SpecLayer: a caller parses packages, binds layers to the architecture,  *)
(* asks a layer for a rule and validates that one rule, as the layer tests *)
(* do.  args holds the caller's last call on a layer or on the layered     *)
(* architecture, ret the rule it returned.                                 *)

pInfrastructure == <<"^", "i", "n", "f", "r", "a", "s", "t", "r", "u", "c", "t", "u", "r", "e", "$">>
pUserAnchored == <<"^", "U", "s", "e", "r">>

DomainInfrastructure ==
  <<NewLayer("Domain", <<pDomain>>), NewLayer("Infrastructure", <<pInfrastructure>>)>>

\* Layer.SetArchitecture(arch) on the i-th layer
LayerSetArchitecture(i) ==
  /\ Layers' = [Layers EXCEPT ![i].arch = TRUE]
  /\ err' = ""
  /\ UNCHANGED <<importRoot, Packages, laArch, rules, dependencyRules,
                 interfaceRules, parameterRules, runs, args, ret>>

\* a layer-scoped constructor called on the i-th layer returned r
LayerRuleCall(op, i, structPattern, r) ==
  /\ args' = [op |-> op, layer |-> i, structPattern |-> structPattern]
  /\ ret' = r.rule
  /\ err' = r.err
  /\ runs' = <<>>
  /\ UNCHANGED <<importRoot, Packages, Layers, laArch, rules, dependencyRules,
                 interfaceRules, parameterRules>>

CallDoesNotDependOn(i, targetPattern) ==
  LayerRuleCall("DoesNotDependOn", i, <<>>, LayerDoesNotDependOn(Layers[i], targetPattern))

CallDoesNotDependOnLayer(i, j) ==
  LayerRuleCall("DoesNotDependOnLayer", i, <<>>,
                LayerDoesNotDependOnLayer(Layers[i], IF j = 0 THEN <<>> ELSE <<Layers[j]>>))

CallStructsImplementInterfaces(i, structPattern, interfacePattern) ==
  LayerRuleCall("StructsImplementInterfaces", i, structPattern,
                LayerStructsImplementInterfaces(Layers[i], structPattern, interfacePattern))

CallMethodsShouldUse(i, structPattern, methodPattern, parameterTypePattern, shouldUseInterface) ==
  LayerRuleCall(IF shouldUseInterface THEN "MethodsShouldUseInterfaceParameters"
                                      ELSE "MethodsShouldUseStructParameters",
                i, structPattern,
                LayerMethodsShouldUse(Layers[i], structPattern, methodPattern,
                                      parameterTypePattern, shouldUseInterface))

\* LayeredArchitecture.Check: binds every layer, then checks the layer rules
LayeredCheck(order) ==
  /\ laArch' = TRUE
  /\ Layers' = BindLayers(Layers)
  /\ runs' = <<Check(Layers, rules, Packages, order)>>
  /\ err' = ""
  /\ args' = [op |-> "Check", layer |-> 0, structPattern |-> <<>>]
  /\ ret' = <<>>
  /\ UNCHANGED <<importRoot, Packages, rules, dependencyRules,
                 interfaceRules, parameterRules>>

DependencyOps == {"DoesNotDependOn", "DoesNotDependOnLayer"}
ParameterOps == {"MethodsShouldUseInterfaceParameters", "MethodsShouldUseStructParameters"}

\* the check of the rule's kind, run on the one rule the constructor returned
ValidateRule(order, structOrder, interfaceOrder) ==
  /\ ret # <<>>
  /\ runs' = << IF args.op \in DependencyOps
                  THEN CheckDependencies(Packages, order, ret)
                ELSE IF args.op \in ParameterOps
                  THEN CheckMethodParameters(Packages, order, structOrder, ret)
                ELSE CheckStructImplementsInterfaces(Packages, order, structOrder,
                                                     interfaceOrder, ret) >>
  /\ err' = ""
  /\ UNCHANGED <<importRoot, Packages, Layers, laArch, rules, dependencyRules,
                 interfaceRules, parameterRules, args, ret>>

InitLayer ==
  /\ importRoot = sModule \o Slash
  /\ Packages = <<>>
  /\ Layers = DomainInfrastructure
  /\ laArch = FALSE
  /\ rules = <<>>
  /\ dependencyRules = <<>>
  /\ interfaceRules = <<>>
  /\ parameterRules = <<>>
  /\ runs = <<>>
  /\ err = ""
  /\ args = <<>>
  /\ ret = <<>>

NextLayer ==
  \/ \E p \in {sDomain, sInfrastructure} : ParsePackages(p)
  \/ \E i \in DOMAIN Layers : LayerSetArchitecture(i)
  \/ SetArchitecture
  \/ \E order \in Orders(DOMAIN Packages) : LayeredCheck(order)
  \/ \E i \in DOMAIN Layers : CallDoesNotDependOn(i, pInfrastructure)
  \/ \E i \in DOMAIN Layers : \E j \in (DOMAIN Layers \cup {0}) \ {i} :
       CallDoesNotDependOnLayer(i, j)
  \/ \E i \in DOMAIN Layers : \E sp \in {sUser, pUserAnchored} :
       CallStructsImplementInterfaces(i, sp, pRepositoryInterface)
  \/ \E i \in DOMAIN Layers : \E b \in BOOLEAN :
       CallMethodsShouldUse(i, pService, pUpdate, sUser, b)
  \/ \E order \in Orders(DOMAIN Packages) :
       \E structOrder \in MapOrders(Packages, "Structs") :
         \E interfaceOrder \in MapOrders(Packages, "Interfaces") :
           ValidateRule(order, structOrder, interfaceOrder)

SpecLayer == InitLayer /\ [][NextLayer]_vars

\* the structs a rule the layer Layers[args.layer] built from the struct
\* pattern args.structPattern and the interface pattern of ret[1] is about:
\* the name matches the pattern as supplied, the package belongs to the layer,
\* and the struct satisfies none of the matched interfaces
LayerStructsBreaking ==
  { s \in TypesMatching("Structs", args.structPattern) :
      /\ Contains(Layers[args.layer], s.Pkg)
      /\ LET matched == TypesMatching("Interfaces", ret[1].InterfacePattern)
         IN  matched # {} /\ \A i \in matched : ~Satisfies(s, i) }

LayerRunReported == { <<runs[1][k].struct, runs[1][k].pkg>> : k \in DOMAIN runs[1] }

\* C11: validating the rule Layer.StructsImplementInterfaces built from an
\* unanchored struct pattern reports exactly the structs of the layer's
\* packages whose name matches the supplied pattern and that break the rule:
\* each of them is reported, and no struct of another layer is
C11_LayerRuleReportsLayerStructs ==
  ( /\ runs # <<>>
    /\ args.op = "StructsImplementInterfaces"
    /\ ~HasPrefix(args.structPattern, <<"^">>) )
  => LayerRunReported = { <<s.Name, s.Pkg>> : s \in LayerStructsBreaking }

\* a step in which one of the five layer-scoped constructors is called on
\* the i-th layer
LayerConstructorStep(i) ==
  \/ CallDoesNotDependOn(i, pInfrastructure)
  \/ \E j \in (DOMAIN Layers \cup {0}) \ {i} : CallDoesNotDependOnLayer(i, j)
  \/ \E sp \in {sUser, pUserAnchored} : CallStructsImplementInterfaces(i, sp, pRepositoryInterface)
  \/ \E b \in BOOLEAN : CallMethodsShouldUse(i, pService, pUpdate, sUser, b)

\* a step that binds the i-th layer to an architecture
LayerBindingStep(i) ==
  \/ LayerSetArchitecture(i)
  \/ SetArchitecture
  \/ \E order \in Orders(DOMAIN Packages) : LayeredCheck(order)

-----------------------------------------------------------------------------
(* SpecCtor: a caller calls the constructors of rules and layers, and the  *)
(* helpers of Architecture and of a bound Layer built on them, with valid, *)
(* invalid and empty patterns.  args holds the last call, ret the object   *)
(* it returned.                                                            *)

pStarService == <<"*", "S", "e", "r", "v", "i", "c", "e">>
pOpenGroup == <<"(">>

CtorPatterns == {<<>>, sUser, pUserAnchored, pStarService, pOpenGroup}

\* NewLayer(name, packages...) with its error result
NewLayerCompile(name, packages) ==
  IF \E i \in DOMAIN packages : ~Compiles(packages[i])
    THEN [rule |-> <<>>, err |-> "invalid package pattern"]
    ELSE [rule |-> <<NewLayer(name, packages)>>, err |-> ""]

\* the constructor or helper op, called with the patterns, returned r
ConstructorCall(op, patterns, r) ==
  /\ args' = [op |-> op, patterns |-> patterns]
  /\ ret' = r.rule
  /\ err' = r.err
  /\ UNCHANGED <<importRoot, Packages, Layers, laArch, rules, dependencyRules,
                 interfaceRules, parameterRules, runs>>

InitCtor ==
  /\ importRoot = sModule \o Slash
  /\ Packages = <<>>
  /\ Layers = BindLayers(DomainInfrastructure)
  /\ laArch = TRUE
  /\ rules = <<>>
  /\ dependencyRules = <<>>
  /\ interfaceRules = <<>>
  /\ parameterRules = <<>>
  /\ runs = <<>>
  /\ err = ""
  /\ args = <<>>
  /\ ret = <<>>

NextCtor ==
  \/ \E s \in CtorPatterns : \E t \in CtorPatterns : \E allowed \in BOOLEAN :
       ConstructorCall("NewDependencyRule", <<s, t>>, NewDependencyRule(s, t, allowed))
  \/ \E s \in CtorPatterns : \E t \in CtorPatterns :
       ConstructorCall("Architecture.DependsOn", <<s, t>>, NewDependencyRule(s, t, TRUE))
  \/ \E s \in CtorPatterns : \E t \in CtorPatterns :
       ConstructorCall("Architecture.DoesNotDependOn", <<s, t>>, NewDependencyRule(s, t, FALSE))
  \/ \E packages \in {<<s>> : s \in CtorPatterns} \cup (CtorPatterns \X CtorPatterns) :
       ConstructorCall("NewLayer", packages, NewLayerCompile("L", packages))
  \/ \E s \in CtorPatterns : \E t \in CtorPatterns :
       ConstructorCall("NewInterfaceImplementationRule", <<s, t>>,
                       NewInterfaceImplementationRule(s, t))
  \/ \E s \in CtorPatterns : \E t \in CtorPatterns :
       ConstructorCall("Architecture.StructsImplementInterfaces", <<s, t>>,
                       NewInterfaceImplementationRule(s, t))
  \/ \E s \in CtorPatterns : \E m \in CtorPatterns : \E t \in CtorPatterns : \E b \in BOOLEAN :
       ConstructorCall("NewParameterRule", <<s, m, t>>, NewParameterRule(s, m, t, b))
  \/ \E s \in CtorPatterns : \E m \in CtorPatterns : \E t \in CtorPatterns : \E b \in BOOLEAN :
       ConstructorCall(IF b THEN "Architecture.MethodsShouldUseInterfaceParameters"
                            ELSE "Architecture.MethodsShouldUseStructParameters",
                       <<s, m, t>>, NewParameterRule(s, m, t, b))
  \/ \E i \in DOMAIN Layers : \E t \in CtorPatterns :
       ConstructorCall("Layer.DoesNotDependOn", <<t>>, LayerDoesNotDependOn(Layers[i], t))
  \/ \E i \in DOMAIN Layers : \E s \in CtorPatterns : \E t \in CtorPatterns :
       ConstructorCall("Layer.StructsImplementInterfaces", <<s, t>>,
                       LayerStructsImplementInterfaces(Layers[i], s, t))
  \/ \E i \in DOMAIN Layers : \E s \in CtorPatterns : \E m \in CtorPatterns :
       \E t \in CtorPatterns : \E b \in BOOLEAN :
         ConstructorCall(IF b THEN "Layer.MethodsShouldUseInterfaceParameters"
                              ELSE "Layer.MethodsShouldUseStructParameters",
                         <<s, m, t>>, LayerMethodsShouldUse(Layers[i], s, m, t, b))

SpecCtor == InitCtor /\ [][NextCtor]_vars

\* C12: a constructor or helper called with a pattern that is not a valid
\* regular expression returns an error and no object
C12_InvalidPatternRejected ==
  (args # <<>> /\ \E k \in DOMAIN args.patterns : ~Compiles(args.patterns[k]))
    => (err # "" /\ ret = <<>>)

\* C13: NewDependencyRule, Architecture.DependsOn and Architecture.DoesNotDependOn
\* called with an empty source or target pattern return an error and no rule
C13_EmptyPatternRejected ==
  ( /\ args # <<>>
    /\ args.op \in {"NewDependencyRule", "Architecture.DependsOn", "Architecture.DoesNotDependOn"}
    /\ \E k \in DOMAIN args.patterns : args.patterns[k] = <<>> )
    => (err # "" /\ ret = <<>>)

-----------------------------------------------------------------------------
(* SpecParse: a caller parses lists of paths of a project in which some    *)
(* directories cannot be read and some hold source that does not parse.    *)
(* args holds the last call.                                               *)

\* d is a direct subdirectory of p
IsChild(d, p) ==
  /\ HasPrefix(d, p \o Slash)
  /\ ~ContainsChar(SubSeq(d, Len(p) + 2, Len(d)), "/")

RECURSIVE BaseName(_)
\* the last element of a path: the name of the directory
BaseName(p) == IF ContainsChar(p, "/") THEN BaseName(Tail(p)) ELSE p

\* os.ReadDir(p): the subdirectories of p, sorted by file name
ReadDir(p) == SelectSeq(SortedDirs, LAMBDA d : IsChild(d, p))

\* parsePackageDir(fullPath, pkgPath): parser.ParseDir fails for a directory
\* that cannot be read or whose source does not parse, before any package is
\* registered; a directory without Go files yields no package
parsePackageDir(packages, p, root, T, unreadable, unparsable) ==
  IF p \in unreadable \cup unparsable
    THEN [packages |-> packages, err |-> "failed to parse package"]
  ELSE IF p \in Dirs
    THEN [ packages |-> [d \in DOMAIN packages \cup {p} |->
                           IF d = p THEN ExtractPackage(p, root, T) ELSE packages[d]],
           err |-> "" ]
  ELSE [packages |-> packages, err |-> ""]

RECURSIVE ParsePackageOrError(_, _, _, _, _, _)
RECURSIVE ParseSubDirs(_, _, _, _, _, _)
\* the loop of ParsePackage over the entries of the directory
ParseSubDirs(packages, files, root, T, unreadable, unparsable) ==
  IF files = <<>> THEN [packages |-> packages, err |-> ""]
  ELSE IF HasPrefix(BaseName(Head(files)), <<".">>)
    THEN ParseSubDirs(packages, Tail(files), root, T, unreadable, unparsable)
  ELSE IF Head(files) \in unreadable
    THEN [packages |-> packages, err |-> "failed to read subdirectory"]
  ELSE IF Head(files) \in Dirs
    THEN LET r == ParsePackageOrError(packages, Head(files), root, T, unreadable, unparsable)
         IN  IF r.err # "" THEN r
             ELSE ParseSubDirs(r.packages, Tail(files), root, T, unreadable, unparsable)
  ELSE ParseSubDirs(packages, Tail(files), root, T, unreadable, unparsable)

\* Architecture.ParsePackage(pkgPath) with its error result
ParsePackageOrError(packages, p, root, T, unreadable, unparsable) ==
  IF p \notin Dirs \cup EmptyDirs
    THEN [packages |-> packages, err |-> "failed to stat package path"]
  ELSE LET r == parsePackageDir(packages, p, root, T, unreadable, unparsable)
       IN  IF r.err # "" THEN r
           ELSE IF p \in unreadable
             THEN [packages |-> r.packages, err |-> "failed to read package directory"]
           ELSE ParseSubDirs(r.packages, ReadDir(p), root, T, unreadable, unparsable)

RECURSIVE ParsePaths(_, _, _, _, _, _)
\* variant: a failing path is skipped and the remaining paths are parsed
RECURSIVE ParsePathsSkippingFailures(_, _, _, _, _, _)
ParsePathsSkippingFailures(packages, paths, root, T, unreadable, unparsable) ==
  IF paths = <<>> THEN [packages |-> packages, err |-> ""]
  ELSE LET r == ParsePackageOrError(packages, Head(paths), root, T, unreadable, unparsable)
           rest == ParsePathsSkippingFailures(r.packages, Tail(paths), root, T,
                                              unreadable, unparsable)
       IN  [packages |-> rest.packages, err |-> IF r.err # "" THEN r.err ELSE rest.err]

\* the loop of ParsePackages over the given paths
ParsePaths(packages, paths, root, T, unreadable, unparsable) ==
  IF paths = <<>> THEN [packages |-> packages, err |-> ""]
  ELSE LET r == ParsePackageOrError(packages, Head(paths), root, T, unreadable, unparsable)
       IN  IF r.err # "" THEN r
           ELSE ParsePaths(r.packages, Tail(paths), root, T, unreadable, unparsable)

RECURSIVE parseAllPackages(_, _, _, _, _, _)
\* parseAllPackages: filepath.Walk over the directories still to visit, in
\* the order of the walk.  The vendor directory is skipped with all below it
\* (filepath.SkipDir); a directory whose name starts with a dot is passed
\* over and the walk goes on into it
parseAllPackages(packages, walk, root, T, unreadable, unparsable) ==
  IF walk = <<>> THEN [packages |-> packages, err |-> ""]
  ELSE IF ~HasPrefix(BaseName(Head(walk)), <<".">>)
          /\ (Head(walk) = sVendor \/ HasPrefix(Head(walk), sVendor \o Slash))
    THEN parseAllPackages(packages,
                          SelectSeq(Tail(walk), LAMBDA d : ~HasPrefix(d, Head(walk) \o Slash)),
                          root, T, unreadable, unparsable)
  ELSE IF Head(walk) \in unreadable
    THEN [packages |-> packages, err |-> "open: permission denied"]
  ELSE IF HasPrefix(BaseName(Head(walk)), <<".">>)
    THEN parseAllPackages(packages, Tail(walk), root, T, unreadable, unparsable)
  ELSE IF Head(walk) \in Dirs
    THEN LET r == ParsePackageOrError(packages, Head(walk), root, T, unreadable, unparsable)
         IN  IF r.err # "" THEN r
             ELSE parseAllPackages(r.packages, Tail(walk), root, T, unreadable, unparsable)
  ELSE parseAllPackages(packages, Tail(walk), root, T, unreadable, unparsable)

sMissing == <<"m", "i", "s", "s", "i", "n", "g">>
ParseRoots == {sDomain, sUtils, sInternal, sMissing}
PathLists == {<<>>} \cup {<<p>> : p \in ParseRoots} \cup (ParseRoots \X ParseRoots)
Unreadable == {{}, {Join2(sInternal, sPkg)}}
Unparsable == {{}, {Join2(sDomain, sEntities)}, {Join2(sInternal, sEntities)}, {sUtils}}

\* Architecture.ParsePackages(pkgPaths...)
ParsePackagesCall(paths, unreadable, unparsable) ==
  LET r == IF paths = <<>>
             THEN parseAllPackages(Packages, SortedDirs, importRoot, OtherType,
                                   unreadable, unparsable)
             ELSE ParsePaths(Packages, paths, importRoot, OtherType, unreadable, unparsable)
  IN  /\ Packages' = r.packages
      /\ err' = r.err
      /\ args' = [paths |-> paths, unreadable |-> unreadable, unparsable |-> unparsable]
      /\ runs' = <<>>
      /\ UNCHANGED <<importRoot, Layers, laArch, rules, dependencyRules,
                     interfaceRules, parameterRules, ret>>

InitParse ==
  /\ importRoot = sModule \o Slash
  /\ Packages = <<>>
  /\ Layers = <<>>
  /\ laArch = FALSE
  /\ rules = <<>>
  /\ dependencyRules = <<>>
  /\ interfaceRules = <<>>
  /\ parameterRules = <<>>
  /\ runs = <<>>
  /\ err = ""
  /\ args = <<>>
  /\ ret = <<>>

NextParse ==
  \E paths \in PathLists : \E unreadable \in Unreadable : \E unparsable \in Unparsable :
    ParsePackagesCall(paths, unreadable, unparsable)

SpecParse == InitParse /\ [][NextParse]_vars

\* d is p or a directory at any depth under p
Under(d, p) == d = p \/ HasPrefix(d, p \o Slash)

\* C19: after ParsePackage(p) has returned without error, every directory at
\* any depth under p that holds non-test Go source is registered under its
\* relative path, also when its parent directory holds no Go source, and no
\* directory without Go source is registered
C19_EveryGoDirectoryUnderPathRegistered ==
  (args # <<>> /\ err = "") =>
    /\ \A k \in DOMAIN args.paths : \A d \in Dirs :
         Under(d, args.paths[k]) => (d \in DOMAIN Packages /\ Packages[d].Path = d)
    /\ DOMAIN Packages \subseteq Dirs

RECURSIVE Seen(_)
\* the directories ParsePackage(p) opens when nothing fails
Seen(p) ==
  {p} \cup {d \in Dirs \cup EmptyDirs : IsChild(d, p)}
      \cup UNION {Seen(c) : c \in {d \in Dirs : IsChild(d, p)}}

\* ParsePackage(p) fails: p does not exist or a directory it opens cannot be
\* read or parsed
PathFails(p, broken) == p \notin Dirs \cup EmptyDirs \/ Seen(p) \cap broken # {}

\* C18: when a call of ParsePackages fails, every package registered before
\* the call is still registered and unchanged, no package is added for a
\* directory that cannot be read or parsed, and nothing is added for the
\* paths after the first failing one
C18_FailedExtractionRegistersNothing ==
  [][ (ParsePackagesCall(args'.paths, args'.unreadable, args'.unparsable) /\ err' # "") =>
        LET broken == args'.unreadable \cup args'.unparsable
            added == DOMAIN Packages' \ DOMAIN Packages
        IN  /\ \A d \in DOMAIN Packages : d \in DOMAIN Packages' /\ Packages'[d] = Packages[d]
            /\ added \cap broken = {}
            /\ args'.paths # <<>> =>
                 \E k \in DOMAIN args'.paths :
                   /\ PathFails(args'.paths[k], broken)
                   /\ \A j \in 1 .. k - 1 : ~PathFails(args'.paths[j], broken)
                   /\ \A d \in added : \E j \in 1 .. k : Under(d, args'.paths[j]) ]_vars

\* ParsePackages("domain", "utils") failed in domain/entities: domain is
\* registered, domain/entities and utils are not
C18_Witness ==
  /\ args # <<>>
  /\ args.paths = <<sDomain, sUtils>>
  /\ args.unparsable = {Join2(sDomain, sEntities)}
  /\ err # ""
  /\ DOMAIN Packages = {sDomain}

\* some element of the path d is a name starting with a dot
InDotDirectory(d) ==
  \E i \in DOMAIN d : d[i] = "." /\ (i = 1 \/ d[i - 1] = "/")

\* C29 (as claimed): a call of ParsePackages with no paths registers no
\* package whose path is vendor or lies under vendor/, and none that lies in
\* a directory whose name starts with a dot
C29_NoVendorNoDotDirectory ==
  [][ ParsePackagesCall(<<>>, args'.unreadable, args'.unparsable) =>
        \A d \in DOMAIN Packages' \ DOMAIN Packages :
          ~Under(d, sVendor) /\ ~InDotDirectory(d) ]_vars

-----------------------------------------------------------------------------
(* Configuration: the parsed form of the YAML document, its validation,    *)
(* the architecture built from it and the run of all checks.               *)

\* the first error of a list of per-element results ("" when there is none)
FirstError(errs) ==
  IF \A i \in DOMAIN errs : errs[i] = "" THEN ""
  ELSE errs[CHOOSE i \in DOMAIN errs :
              errs[i] # "" /\ \A j \in 1 .. i - 1 : errs[j] = ""]

\* the checks of validateConfig on the i-th layer
LayerConfigError(config, i) ==
  LET layer == config.Layers[i]
  IN  IF layer.Name = "" THEN "layer name cannot be empty"
      ELSE IF layer.Pattern = <<>> THEN "layer pattern cannot be empty"
      ELSE IF \E j \in 1 .. i - 1 : config.Layers[j].Name = layer.Name
        THEN "duplicate layer name"
      ELSE IF ~Compiles(layer.Pattern) THEN "invalid pattern for layer"
      ELSE ""

RuleConfigError(layerNames, rule) ==
  IF rule.From = "" THEN "rule 'from' cannot be empty"
  ELSE IF rule.To = "" THEN "rule 'to' cannot be empty"
  ELSE IF rule.From \notin layerNames THEN "rule references undefined layer"
  ELSE IF rule.To \notin layerNames THEN "rule references undefined layer"
  ELSE ""

InterfaceRuleConfigError(rule) ==
  IF rule.StructPattern = <<>> THEN "struct pattern cannot be empty"
  ELSE IF rule.InterfacePattern = <<>> THEN "interface pattern cannot be empty"
  ELSE IF ~Compiles(rule.StructPattern) THEN "invalid struct pattern"
  ELSE IF ~Compiles(rule.InterfacePattern) THEN "invalid interface pattern"
  ELSE ""

ParameterRuleConfigError(rule) ==
  IF rule.StructPattern = <<>> THEN "struct pattern cannot be empty"
  ELSE IF rule.MethodPattern = <<>> THEN "method pattern cannot be empty"
  ELSE IF rule.ParameterTypePattern = <<>> THEN "parameter type pattern cannot be empty"
  ELSE IF ~Compiles(rule.StructPattern) THEN "invalid struct pattern"
  ELSE IF ~Compiles(rule.MethodPattern) THEN "invalid method pattern"
  ELSE IF ~Compiles(rule.ParameterTypePattern) THEN "invalid parameter type pattern"
  ELSE ""

\* the parameter keys validateConfig requires for a rule type, in the order
\* it looks for them, and those whose value it compiles
RequiredKeys(ruleType) ==
  CASE ruleType = "dependency" -> <<"targetPattern">>
    [] ruleType = "interface" -> <<"structPattern", "interfacePattern">>
    [] ruleType = "parameter" ->
         <<"structPattern", "methodPattern", "parameterTypePattern", "shouldUseInterface">>

PatternKeys(ruleType) ==
  CASE ruleType = "dependency" -> <<"targetPattern">>
    [] ruleType = "interface" -> <<"structPattern", "interfacePattern">>
    [] ruleType = "parameter" -> <<"structPattern", "methodPattern", "parameterTypePattern">>

LayerSpecificRuleConfigError(layerNames, rule) ==
  IF rule.Layer = "" THEN "layer cannot be empty"
  ELSE IF rule.Layer \notin layerNames THEN "references undefined layer"
  ELSE IF rule.RuleType = "" THEN "rule type cannot be empty"
  ELSE IF rule.RuleType \notin {"dependency", "interface", "parameter"}
    THEN "invalid rule type"
  ELSE IF DOMAIN rule.Parameters = {} THEN "parameters cannot be empty"
  ELSE IF \E k \in DOMAIN RequiredKeys(rule.RuleType) :
            RequiredKeys(rule.RuleType)[k] \notin DOMAIN rule.Parameters
    THEN "rule requires parameter"
  ELSE IF \E k \in DOMAIN PatternKeys(rule.RuleType) :
            ~Compiles(rule.Parameters[PatternKeys(rule.RuleType)[k]])
    THEN "invalid pattern"
  ELSE ""

DirectLayerDependencyRuleConfigError(layerNames, rule) ==
  IF rule.SourceLayer = "" THEN "source layer cannot be empty"
  ELSE IF rule.TargetLayer = "" THEN "target layer cannot be empty"
  ELSE IF rule.SourceLayer \notin layerNames THEN "references undefined source layer"
  ELSE IF rule.TargetLayer \notin layerNames THEN "references undefined target layer"
  ELSE ""

\* variant: the layer-specific rules are not validated
validateConfigSkippingLayerSpecificRules(config) ==
  LET layerNames == {config.Layers[i].Name : i \in DOMAIN config.Layers}
  IN  IF Len(config.Layers) = 0 THEN "no layers defined in configuration"
      ELSE FirstError(
        << FirstError([i \in DOMAIN config.Layers |-> LayerConfigError(config, i)]),
           FirstError([i \in DOMAIN config.Rules |->
                         RuleConfigError(layerNames, config.Rules[i])]),
           FirstError([i \in DOMAIN config.InterfaceRules |->
                         InterfaceRuleConfigError(config.InterfaceRules[i])]),
           FirstError([i \in DOMAIN config.ParameterRules |->
                         ParameterRuleConfigError(config.ParameterRules[i])]),
           FirstError([i \in DOMAIN config.DirectLayerDependencyRules |->
                         DirectLayerDependencyRuleConfigError(
                           layerNames, config.DirectLayerDependencyRules[i])]) >>)

\* validateConfig(config): "" for nil
validateConfig(config) ==
  LET layerNames == {config.Layers[i].Name : i \in DOMAIN config.Layers}
  IN  IF Len(config.Layers) = 0 THEN "no layers defined in configuration"
      ELSE FirstError(
        << FirstError([i \in DOMAIN config.Layers |-> LayerConfigError(config, i)]),
           FirstError([i \in DOMAIN config.Rules |->
                         RuleConfigError(layerNames, config.Rules[i])]),
           FirstError([i \in DOMAIN config.InterfaceRules |->
                         InterfaceRuleConfigError(config.InterfaceRules[i])]),
           FirstError([i \in DOMAIN config.ParameterRules |->
                         ParameterRuleConfigError(config.ParameterRules[i])]),
           FirstError([i \in DOMAIN config.LayerSpecificRules |->
                         LayerSpecificRuleConfigError(layerNames,
                                                      config.LayerSpecificRules[i])]),
           FirstError([i \in DOMAIN config.DirectLayerDependencyRules |->
                         DirectLayerDependencyRuleConfigError(
                           layerNames, config.DirectLayerDependencyRules[i])]) >>)

\* LoadConfig(filePath): the file is missing, is not YAML, or holds a
\* configuration document
LoadConfig(file) ==
  IF file.kind = "missing" THEN [config |-> <<>>, err |-> "failed to read config file"]
  ELSE IF file.kind = "malformed" THEN [config |-> <<>>, err |-> "failed to parse config file"]
  ELSE IF validateConfig(file.config) # ""
    THEN [config |-> <<>>, err |-> validateConfig(file.config)]
  ELSE [config |-> <<file.config>>, err |-> ""]

\* layerMap[name]: the layer made last for the name (<<>> for nil)
LayerByName(layers, name) ==
  IF \E i \in DOMAIN layers : layers[i].Name = name
    THEN << layers[CHOOSE i \in DOMAIN layers :
                     layers[i].Name = name /\ \A j \in DOMAIN layers : j > i => layers[j].Name # name] >>
    ELSE <<>>

sTrue == <<"t", "r", "u", "e">>

\* what a loop of BuildArchitecture does with the rule it made: r is what
\* the constructor returned, msg the error the loop wraps a failure in
Appended(b, field, r, msg) ==
  IF r.err # "" THEN [b EXCEPT !.err = msg] ELSE [b EXCEPT ![field] = @ \o r.rule]

\* the same for a dependency the layered architecture was asked to allow
Allowed(b, r, msg) ==
  IF r.err # "" THEN [b EXCEPT !.err = msg] ELSE [b EXCEPT !.laRules = r.rules]

\* one pass of a loop of BuildArchitecture over the entry w of the
\* configuration; b holds the rule collections built so far
BuildStep(layers, b, w) ==
  CASE w.op = "rule" ->
         IF LayerByName(layers, w.c.To) = <<>>
           THEN [b EXCEPT !.err = "failed to add dependency rule"]
           ELSE Allowed(b, AddRule(layers, b.laRules, LayerByName(layers, w.c.From)[1].Name,
                                   LayerByName(layers, w.c.To)[1].Name),
                        "failed to add dependency rule")
    [] w.op = "interface" ->
         Appended(b, "interfaceRules",
                  NewInterfaceImplementationRule(w.c.StructPattern, w.c.InterfacePattern),
                  "failed to create interface rule")
    [] w.op = "parameter" ->
         Appended(b, "parameterRules",
                  NewParameterRule(w.c.StructPattern, w.c.MethodPattern,
                                   w.c.ParameterTypePattern, w.c.ShouldUseInterface),
                  "failed to create parameter rule")
    [] w.op = "layerSpecific" ->
         LET layer == LayerByName(layers, w.c.Layer)
             P(k) == IF k \in DOMAIN w.c.Parameters THEN w.c.Parameters[k] ELSE <<>>
         IN  IF layer = <<>> THEN [b EXCEPT !.err = "layer not found for layer-specific rule"]
             ELSE IF w.c.RuleType = "dependency" THEN
               Appended(b, "dependencyRules", LayerDoesNotDependOn(layer[1], P("targetPattern")),
                        "failed to create layer-specific dependency rule")
             ELSE IF w.c.RuleType = "interface" THEN
               Appended(b, "interfaceRules",
                        LayerStructsImplementInterfaces(layer[1], P("structPattern"),
                                                        P("interfacePattern")),
                        "failed to create layer-specific interface rule")
             ELSE IF w.c.RuleType = "parameter" THEN
               Appended(b, "parameterRules",
                        LayerMethodsShouldUse(layer[1], P("structPattern"), P("methodPattern"),
                                              P("parameterTypePattern"),
                                              P("shouldUseInterface") = sTrue),
                        "failed to create layer-specific parameter rule")
             ELSE b
    [] w.op = "direct" ->
         LET sourceLayer == LayerByName(layers, w.c.SourceLayer)
             targetLayer == LayerByName(layers, w.c.TargetLayer)
         IN  IF sourceLayer = <<>>
               THEN [b EXCEPT !.err = "source layer not found for direct layer dependency rule"]
             ELSE IF targetLayer = <<>>
               THEN [b EXCEPT !.err = "target layer not found for direct layer dependency rule"]
             ELSE IF w.c.Allowed THEN
               Allowed(b, AddRule(layers, b.laRules, sourceLayer[1].Name, targetLayer[1].Name),
                       "failed to add direct layer dependency rule")
             ELSE
               Appended(b, "dependencyRules",
                        LayerDoesNotDependOnLayer(sourceLayer[1], targetLayer),
                        "failed to create direct layer dependency rule")

\* the loops of BuildArchitecture over the entries work, stopping at the
\* first error
RECURSIVE BuildRules(_, _, _)
BuildRules(layers, b, work) ==
  IF work = <<>> \/ b.err # "" THEN b
  ELSE BuildRules(layers, BuildStep(layers, b, Head(work)), Tail(work))

\* the directories of the project the configuration is run on
ProjectDirs == <<sDomain, Join2(sDomain, sEntities), sUtils>>

\* what BuildArchitecture returns beside an error
NoArchitecture ==
  [ packages |-> <<>>, layers |-> <<>>, laRules |-> <<>>, dependencyRules |-> <<>>,
    interfaceRules |-> <<>>, parameterRules |-> <<>>, err |-> "" ]

\* return nil, nil, nil, nil, nil, err
OrError(b) == IF b.err # "" THEN [NoArchitecture EXCEPT !.err = b.err] ELSE b

\* BuildArchitecture once the packages were parsed (parsed) and the layers
\* made (made)
BuildFrom(config, env, parsed, made) ==
  LET layers == [i \in DOMAIN made |-> [made[i].rule[1] EXCEPT !.arch = env.binds]]
      Entries(op, list) == [i \in DOMAIN list |-> [op |-> op, c |-> list[i]]]
  IN  IF env.absFails THEN [NoArchitecture EXCEPT !.err = "failed to create architecture"]
      ELSE IF parsed.err # "" THEN [NoArchitecture EXCEPT !.err = "failed to parse packages"]
      ELSE IF \E i \in DOMAIN made : made[i].err # ""
        THEN [NoArchitecture EXCEPT !.err = "failed to create layer"]
      ELSE OrError(BuildRules(layers,
                              [NoArchitecture EXCEPT !.packages = parsed.packages,
                                                     !.layers = layers],
                              Entries("rule", config.Rules)
                                \o Entries("interface", config.InterfaceRules)
                                \o Entries("parameter", config.ParameterRules)
                                \o Entries("layerSpecific", config.LayerSpecificRules)
                                \o Entries("direct", config.DirectLayerDependencyRules)))

\* Config.BuildArchitecture(basePath).  env says whether the absolute path
\* can be resolved, which directories cannot be read or parsed, and whether
\* the layered architecture is made with its layers bound to the architecture
BuildArchitecture(config, env) ==
  BuildFrom(config, env,
            parseAllPackages(<<>>, ProjectDirs, sModule \o Slash, OtherType,
                             env.unreadable, env.unparsable),
            [i \in DOMAIN config.Layers |->
               NewLayerCompile(config.Layers[i].Name, <<config.Layers[i].Pattern>>)])

\* variant: a run with violations returns them as an error
RunResultFailingOnViolations(buildErr, checks) ==
  IF buildErr # "" THEN [pass |-> FALSE, violations |-> <<>>, err |-> buildErr, checks |-> <<>>]
  ELSE IF checks[1] \o checks[2] \o checks[3] \o checks[4] # <<>>
    THEN [pass |-> FALSE, violations |-> <<>>, err |-> "violations", checks |-> checks]
  ELSE [pass |-> TRUE, violations |-> << <<>> >>, err |-> "", checks |-> checks]

\* what RunArchitectureTests returns when BuildArchitecture returned buildErr
\* and the four checks returned checks: pass, the violation list (<<>> for
\* nil, else <<list>>), the error, and what each check returned
RunResult(buildErr, checks) ==
  IF buildErr # "" THEN [pass |-> FALSE, violations |-> <<>>, err |-> buildErr, checks |-> <<>>]
  ELSE [ pass |-> Len(checks[1] \o checks[2] \o checks[3] \o checks[4]) = 0,
         violations |-> << checks[1] \o checks[2] \o checks[3] \o checks[4] >>,
         err |-> "", checks |-> checks ]

\* the checks RunArchitectureTests runs on the architecture b that was built
RunChecks(b, order, structOrder, interfaceOrder) ==
  << Check(BindLayers(b.layers), b.laRules, b.packages, order),
     IF Len(b.dependencyRules) > 0
       THEN CheckDependencies(b.packages, order, b.dependencyRules) ELSE <<>>,
     IF Len(b.interfaceRules) > 0
       THEN CheckStructImplementsInterfaces(b.packages, order, structOrder,
                                            interfaceOrder, b.interfaceRules)
       ELSE <<>>,
     IF Len(b.parameterRules) > 0
       THEN CheckMethodParameters(b.packages, order, structOrder, b.parameterRules)
       ELSE <<>> >>

\* RunArchitectureTests once BuildArchitecture returned b
RunBuilt(b, order, structOrder, interfaceOrder) ==
  RunResult(b.err, RunChecks(b, order, structOrder, interfaceOrder))

\* Config.RunArchitectureTests(basePath)
RunArchitectureTests(config, env, order, structOrder, interfaceOrder) ==
  RunBuilt(BuildArchitecture(config, env), order, structOrder, interfaceOrder)

\* what main prints for the loaded configuration when -verbose is given
VerboseLines(cfg) ==
  <<"Configuration:", "Layers:">>
    \o [i \in DOMAIN cfg.Layers |-> [line |-> "layer", of |-> cfg.Layers[i]]]
    \o <<"Layer Dependency Rules:">>
    \o [i \in DOMAIN cfg.Rules |-> [line |-> "rule", of |-> cfg.Rules[i]]]
    \o (IF Len(cfg.InterfaceRules) > 0
          THEN <<"Interface Implementation Rules:">>
                 \o [i \in DOMAIN cfg.InterfaceRules |->
                       [line |-> "interface rule", of |-> cfg.InterfaceRules[i]]]
          ELSE <<>>)
    \o (IF Len(cfg.ParameterRules) > 0
          THEN <<"Parameter Type Rules:">>
                 \o [i \in DOMAIN cfg.ParameterRules |->
                       [line |-> "parameter rule", of |-> cfg.ParameterRules[i]]]
          ELSE <<>>)
    \o (IF Len(cfg.LayerSpecificRules) > 0
          THEN <<"Layer-Specific Rules:">>
                 \o [i \in DOMAIN cfg.LayerSpecificRules |->
                       [line |-> "layer-specific rule", of |-> cfg.LayerSpecificRules[i]]]
          ELSE <<>>)
    \o (IF Len(cfg.DirectLayerDependencyRules) > 0
          THEN <<"Direct Layer Dependency Rules:">>
                 \o [i \in DOMAIN cfg.DirectLayerDependencyRules |->
                       [line |-> "direct rule", of |-> cfg.DirectLayerDependencyRules[i]]]
          ELSE <<>>)

\* variant: violations are printed but the exit code is 0
mainExitingZeroOnViolations(loaded, run, absFails, verbose) ==
  IF absFails
    THEN [exit |-> 1, stdout |-> <<>>, stderr |-> <<"Error resolving project path">>]
  ELSE IF loaded.err # ""
    THEN [exit |-> 1, stdout |-> <<>>, stderr |-> <<"Error loading configuration">>]
  ELSE IF run.err # ""
    THEN [exit |-> 1, stdout |-> <<>>, stderr |-> <<"Error running architecture tests">>]
  ELSE [ exit |-> 0,
         stdout |-> [i \in DOMAIN run.violations[1] |->
                       [line |-> "violation", of |-> run.violations[1][i]]],
         stderr |-> <<>> ]

\* main, after flag.Parse: loaded is what LoadConfig returned and run what
\* RunArchitectureTests returned (both looked at only when reached)
main(loaded, run, absFails, verbose) ==
  IF absFails
    THEN [exit |-> 1, stdout |-> <<>>, stderr |-> <<"Error resolving project path">>]
  ELSE IF loaded.err # ""
    THEN [exit |-> 1, stdout |-> <<>>, stderr |-> <<"Error loading configuration">>]
  ELSE IF run.err # ""
    THEN [exit |-> 1, stdout |-> <<>>, stderr |-> <<"Error running architecture tests">>]
  ELSE IF run.pass
    THEN [exit |-> 0, stdout |-> <<"Architecture tests passed!">>, stderr |-> <<>>]
  ELSE [ exit |-> 1,
         stdout |-> <<"Architecture tests failed!", "Violations:">>
                      \o [i \in DOMAIN run.violations[1] |->
                            [line |-> "violation", of |-> run.violations[1][i]]]
                      \o (IF verbose THEN VerboseLines(loaded.config[1]) ELSE <<>>),
         stderr |-> <<>> ]

-----------------------------------------------------------------------------
(* SpecConfig: configurations are validated, loaded from files, run on a   *)
(* project and run by the command-line driver.  args holds the last call,  *)
(* ret what it returned, runs what each check of the run returned.         *)

LayerConfigLists ==
  { <<>>,
    <<[Name |-> "Domain", Pattern |-> pDomain], [Name |-> "Utils", Pattern |-> pUtils]>>,
    <<[Name |-> "Domain", Pattern |-> pDomain], [Name |-> "Domain", Pattern |-> pUtils]>>,
    <<[Name |-> "Domain", Pattern |-> pDomain], [Name |-> "Utils", Pattern |-> pOpenGroup]>>,
    <<[Name |-> "Domain", Pattern |-> pDomain], [Name |-> "Utils", Pattern |-> <<>>]>> }

RuleConfigLists ==
  { <<>>, <<[From |-> "Domain", To |-> "Utils"]>>, <<[From |-> "Domain", To |-> "Other"]>> }

InterfaceRuleConfigLists ==
  { <<>>,
    <<[StructPattern |-> sUser, InterfacePattern |-> pRepositoryInterface]>>,
    <<[StructPattern |-> <<>>, InterfacePattern |-> pRepositoryInterface]>> }

ParameterRuleConfigLists ==
  { <<>>,
    <<[ StructPattern |-> sUser, MethodPattern |-> pUpdate,
        ParameterTypePattern |-> pAnyLogger, ShouldUseInterface |-> TRUE ]>> }

LayerSpecificRuleConfigLists ==
  { <<>>,
    <<[Layer |-> "Domain", RuleType |-> "dependency", Parameters |-> [targetPattern |-> sUtils]]>>,
    <<[Layer |-> "Domain", RuleType |-> "dependency", Parameters |-> [structPattern |-> sUser]]>>,
    <<[Layer |-> "Domain", RuleType |-> "interface", Parameters |-> [structPattern |-> sUser]]>>,
    <<[Layer |-> "Other", RuleType |-> "dependency", Parameters |-> [targetPattern |-> sUtils]]>>,
    <<[Layer |-> "Domain", RuleType |-> "layout", Parameters |-> [targetPattern |-> sUtils]]>> }

DirectLayerDependencyRuleConfigLists ==
  { <<>>,
    <<[SourceLayer |-> "Domain", TargetLayer |-> "Utils", Allowed |-> FALSE]>>,
    <<[SourceLayer |-> "Domain", TargetLayer |-> "Other", Allowed |-> TRUE]>> }

Configs ==
  [ Layers : LayerConfigLists, Rules : RuleConfigLists,
    InterfaceRules : InterfaceRuleConfigLists, ParameterRules : ParameterRuleConfigLists,
    LayerSpecificRules : LayerSpecificRuleConfigLists,
    DirectLayerDependencyRules : DirectLayerDependencyRuleConfigLists ]

Files == {[kind |-> "missing"], [kind |-> "malformed"]} \cup
         {[kind |-> "yaml", config |-> c] : c \in Configs}

Envs ==
  [ absFails : BOOLEAN, unreadable : {{}}, unparsable : {{}, {Join2(sDomain, sEntities)}},
    binds : BOOLEAN ]

\* validateConfig(config) on the configuration of the document
ValidateConfigCall ==
  /\ args.op = "none" /\ args.file.kind = "yaml"
  /\ args' = [args EXCEPT !.op = "validateConfig"]
  /\ ret' = <<>>
  /\ err' = validateConfig(args.file.config)
  /\ runs' = <<>>
  /\ UNCHANGED <<importRoot, Packages, Layers, laArch, rules, dependencyRules,
                 interfaceRules, parameterRules>>

\* LoadConfig(filePath)
LoadConfigCall ==
  /\ args.op = "none"
  /\ args' = [args EXCEPT !.op = "LoadConfig"]
  /\ ret' = LoadConfig(args.file).config
  /\ err' = LoadConfig(args.file).err
  /\ runs' = <<>>
  /\ UNCHANGED <<importRoot, Packages, Layers, laArch, rules, dependencyRules,
                 interfaceRules, parameterRules>>

\* the iteration orders of the maps of the packages a build parses
BuildOrders(b) ==
  IF b.err # "" THEN {<<<<>>, <<>>, <<>>>>}
  ELSE Orders(DOMAIN b.packages) \X MapOrders(b.packages, "Structs")
         \X MapOrders(b.packages, "Interfaces")

\* config.RunArchitectureTests(basePath), on a configuration that was loaded
RunArchitectureTestsCall(env) ==
  /\ args.op = "none" /\ LoadConfig(args.file).err = ""
  /\ args' = [op |-> "RunArchitectureTests", file |-> args.file, env |-> env]
  /\ \E o \in BuildOrders(BuildArchitecture(args.file.config, env)) :
       ret' = <<RunArchitectureTests(args.file.config, env, o[1], o[2], o[3])>>
  /\ err' = ret'[1].err
  /\ runs' = ret'[1].checks
  /\ UNCHANGED <<importRoot, Packages, Layers, laArch, rules, dependencyRules,
                 interfaceRules, parameterRules>>

\* arctest -config file -project path [-verbose]: ret is what the process
\* did, runs what RunArchitectureTests returned when it was reached
MainCall(env, verbose) ==
  /\ args.op = "none"
  /\ args' = [op |-> "main", file |-> args.file, env |-> env, verbose |-> verbose]
  /\ IF env.absFails \/ LoadConfig(args.file).err # ""
       THEN runs' = <<>>
       ELSE \E o \in BuildOrders(BuildArchitecture(args.file.config, [env EXCEPT !.absFails = FALSE])) :
              runs' = <<RunArchitectureTests(args.file.config, [env EXCEPT !.absFails = FALSE],
                                             o[1], o[2], o[3])>>
  /\ ret' = <<main(LoadConfig(args.file), IF runs' = <<>> THEN <<>> ELSE runs'[1],
                   env.absFails, verbose)>>
  /\ err' = ""
  /\ UNCHANGED <<importRoot, Packages, Layers, laArch, rules, dependencyRules,
                 interfaceRules, parameterRules>>

\* the configuration file is on disk, nothing has been called
InitConfig ==
  /\ importRoot = sModule \o Slash
  /\ Packages = <<>>
  /\ Layers = <<>>
  /\ laArch = FALSE
  /\ rules = <<>>
  /\ dependencyRules = <<>>
  /\ interfaceRules = <<>>
  /\ parameterRules = <<>>
  /\ runs = <<>>
  /\ err = ""
  /\ args \in {[op |-> "none", file |-> f] : f \in Files}
  /\ ret = <<>>

NextConfig ==
  \/ ValidateConfigCall
  \/ LoadConfigCall
  \/ \E env \in Envs : RunArchitectureTestsCall(env)
  \/ \E env \in Envs : \E verbose \in BOOLEAN : MainCall(env, verbose)

SpecConfig == InitConfig /\ [][NextConfig]_vars

-----------------------------------------------------------------------------
(* Validation of a configuration.                                          *)

DefinedLayers(config) == {config.Layers[i].Name : i \in DOMAIN config.Layers}

\* the configuration has no layers, two layers of one name, a layer pattern
\* that is no regular expression, a rule of any of the three kinds that names
\* a layer that is not defined, or a layer-specific rule without a parameter
\* its rule type requires
ListedFault(config) ==
  \/ Len(config.Layers) = 0
  \/ \E i, j \in DOMAIN config.Layers : i # j /\ config.Layers[i].Name = config.Layers[j].Name
  \/ \E i \in DOMAIN config.Layers : ~Compiles(config.Layers[i].Pattern)
  \/ \E i \in DOMAIN config.Rules :
       {config.Rules[i].From, config.Rules[i].To} \ DefinedLayers(config) # {}
  \/ \E i \in DOMAIN config.LayerSpecificRules :
       config.LayerSpecificRules[i].Layer \notin DefinedLayers(config)
  \/ \E i \in DOMAIN config.DirectLayerDependencyRules :
       { config.DirectLayerDependencyRules[i].SourceLayer,
         config.DirectLayerDependencyRules[i].TargetLayer } \ DefinedLayers(config) # {}
  \/ \E i \in DOMAIN config.LayerSpecificRules :
       /\ config.LayerSpecificRules[i].RuleType \in {"dependency", "interface", "parameter"}
       /\ \E k \in DOMAIN RequiredKeys(config.LayerSpecificRules[i].RuleType) :
            RequiredKeys(config.LayerSpecificRules[i].RuleType)[k]
              \notin DOMAIN config.LayerSpecificRules[i].Parameters

\* a pattern is written and is a regular expression
Written(pattern) == pattern # <<>> /\ Compiles(pattern)

\* beside having no listed fault: every layer has a name and a pattern, every
\* pattern of an interface or parameter rule is written and valid, and every
\* layer-specific rule has a known type and valid patterns
WellFormed(config) ==
  /\ ~ListedFault(config)
  /\ \A i \in DOMAIN config.Layers :
       config.Layers[i].Name # "" /\ config.Layers[i].Pattern # <<>>
  /\ \A i \in DOMAIN config.InterfaceRules :
       /\ Written(config.InterfaceRules[i].StructPattern)
       /\ Written(config.InterfaceRules[i].InterfacePattern)
  /\ \A i \in DOMAIN config.ParameterRules :
       /\ Written(config.ParameterRules[i].StructPattern)
       /\ Written(config.ParameterRules[i].MethodPattern)
       /\ Written(config.ParameterRules[i].ParameterTypePattern)
  /\ \A i \in DOMAIN config.LayerSpecificRules :
       /\ config.LayerSpecificRules[i].RuleType \in {"dependency", "interface", "parameter"}
       /\ \A k \in DOMAIN PatternKeys(config.LayerSpecificRules[i].RuleType) :
            Compiles(config.LayerSpecificRules[i].Parameters[
                       PatternKeys(config.LayerSpecificRules[i].RuleType)[k]])

\* validateConfig, or LoadConfig on a configuration document, has returned
Validated == args.op \in {"validateConfig", "LoadConfig"} /\ args.file.kind = "yaml"

-----------------------------------------------------------------------------
(* The run of all checks.                                                  *)

\* RunArchitectureTests has returned ret[1]; runs holds what the layered
\* architecture, dependency, interface and parameter checks returned
Ran == args.op = "RunArchitectureTests"

\* C16: RunArchitectureTests returns an error exactly when building the
\* architecture fails, then with pass = false and no violation list;
\* otherwise it returns, with a nil error, the layered-architecture
\* violations followed by the dependency, interface and parameter violations,
\* and pass = true exactly when that list is empty
C16_PassIffNoViolation ==
  Ran =>
    /\ ret[1].err # "" <=> BuildArchitecture(args.file.config, args.env).err # ""
    /\ ret[1].err # "" => ~ret[1].pass /\ ret[1].violations = <<>>
    /\ ret[1].err = "" =>
         /\ ret[1].violations = << runs[1] \o runs[2] \o runs[3] \o runs[4] >>
         /\ ret[1].pass <=> runs[1] \o runs[2] \o runs[3] \o runs[4] = <<>>

\* a run whose dependency and interface checks both reported: the violations
\* are returned with pass = false and a nil error
C16_Witness ==
  /\ Ran
  /\ ret[1].err = ""
  /\ ~ret[1].pass
  /\ runs[2] # <<>>
  /\ runs[3] # <<>>
  /\ ret[1].violations[1] = runs[1] \o runs[2] \o runs[3] \o runs[4]

-----------------------------------------------------------------------------
(* The command-line driver.                                                *)

\* the process has exited: ret[1] holds its exit code and what it printed,
\* runs what RunArchitectureTests returned if it was called
Exited == args.op = "main"

\* the lines main prints for the violations, in the order they were returned
ViolationLines(violations) ==
  [i \in DOMAIN violations |-> [line |-> "violation", of |-> violations[i]]]

\* C17: the driver exits with 0 exactly when the project path resolves, the
\* configuration loads, the run returns no error and no violation; otherwise
\* it exits with 1, and when the run returned violations each is printed on
\* a line of its own, in order, after the two heading lines
C17_ExitZeroIffClean ==
  Exited =>
    /\ ret[1].exit \in {0, 1}
    /\ ret[1].exit = 0 <=>
         /\ ~args.env.absFails
         /\ LoadConfig(args.file).err = ""
         /\ runs # <<>>
         /\ runs[1].err = ""
         /\ runs[1].violations = << <<>> >>
    /\ (runs # <<>>) <=> (~args.env.absFails /\ LoadConfig(args.file).err = "")
    /\ (runs # <<>> /\ runs[1].err = "" /\ runs[1].violations[1] # <<>>) =>
         /\ ret[1].exit = 1
         /\ Len(ret[1].stdout) >= 2 + Len(runs[1].violations[1])
         /\ SubSeq(ret[1].stdout, 3, 2 + Len(runs[1].violations[1]))
              = ViolationLines(runs[1].violations[1])

\* the driver printed two violations and exited with 1
C17_Witness ==
  /\ Exited
  /\ runs # <<>>
  /\ runs[1].err = ""
  /\ Len(runs[1].violations[1]) >= 2
  /\ ret[1].exit = 1
  /\ ret[1].stdout[3] = [line |-> "violation", of |-> runs[1].violations[1][1]]
  /\ ret[1].stdout[4] = [line |-> "violation", of |-> runs[1].violations[1][2]]

\* the driver exited with 0
C17_CleanRun ==
  Exited /\ ret[1].exit = 0

\* C26 (as claimed): whenever -verbose is set and the run returned a result,
\* passing or failing, the output ends with the lines of the loaded
\* configuration
C26_VerbosePrintsConfiguration ==
  (Exited /\ args.verbose /\ runs # <<>> /\ runs[1].err = "") =>
    LET lines == VerboseLines(args.file.config)
        n == Len(ret[1].stdout)
    IN  /\ n >= Len(lines)
        /\ SubSeq(ret[1].stdout, n - Len(lines) + 1, n) = lines

=============================================================================
